---- MODULE Spec2Model ----
(***************************************************************************)
(* UNO planning stack: the state/action containers and the transition      *)
(* function of Transitions.py and the action generator of actions.py.      *)
(*                                                                         *)
(* A card string "Color-Type" is represented by the record of the two      *)
(* parts that split("-", 1) yields; Python's None is the string "None"     *)
(* (for a colour) or the record NoCard (for a card).                       *)
(***************************************************************************)
EXTENDS Integers, Sequences, FiniteSets, TLC

VARIABLES state, prev, last, raised, steps, bf, mc, ro, tw

vars == <<state, prev, last, raised, steps, bf, mc, ro, tw>>

----------------------------------------------------------------------------
(* Bounds of the model *)

MaxPlayers == 4

MaxSteps == 2

MaxHand == 5

MaxSumPlus == 8

MaxParticles == 4


MaxBeliefOps == 2

MaxSims == 4

MaxTreeOps == 4

MaxDepth == 2

----------------------------------------------------------------------------
(* Cards *)

None == "None"

NoCard == [color |-> None, type |-> None]

Card(c, t) == [color |-> c, type |-> t]

VALID_COLORS == <<"Blue", "Green", "Red", "Yellow">>

Range(s) == {s[i] : i \in DOMAIN s}

parse_card(card_str) == <<card_str.color, card_str.type>>

_parse_card_string(card_str) == <<card_str.color, card_str.type>>

----------------------------------------------------------------------------
(* Transitions.py *)

UNOAction(t, c, col, n) == [type |-> t, card |-> c, next_color |-> col, plus_value |-> n]

(* Mutant: the index is not reduced modulo the number of players. *)
_next_player_index_nomod(current, direction, num_players) ==
    current + direction

_next_player_index(current, direction, num_players) ==
    (current + direction) % num_players

InHand(hand, card) == \E i \in DOMAIN hand : hand[i] = card

FirstIndex(hand, card) == CHOOSE i \in DOMAIN hand :
    hand[i] = card /\ \A j \in 1..(i - 1) : hand[j] # card

(* Mutant: every copy of the card is dropped, not only the first. *)
_remove_card_all(hand, card) == SelectSeq(hand, LAMBDA x : x # card)

_remove_card(hand, card) ==
    LET i == FirstIndex(hand, card)
    IN  SubSeq(hand, 1, i - 1) \o SubSeq(hand, i + 1, Len(hand))

Raise(s) == [raised |-> TRUE, state |-> s]

Return(s) == [raised |-> FALSE, state |-> s]

(* Mutant: a Draw Four adds the Draw Two penalty. *)
PlayEffect_plus2(s, new_state, card_type) ==
    CASE card_type = "Skip" ->
            [new_state EXCEPT !.skip = TRUE,
                !.current_player = _next_player_index(s.current_player, s.cur_dir, s.num_players)]
      [] card_type = "Reverse" ->
            IF s.num_players = 2
            THEN [new_state EXCEPT !.cur_dir = -s.cur_dir,
                    !.current_player = _next_player_index(s.current_player, -s.cur_dir, s.num_players),
                    !.skip = TRUE]
            ELSE [new_state EXCEPT !.cur_dir = -s.cur_dir]
      [] card_type = "Draw Two" -> [new_state EXCEPT !.sum_plus = s.sum_plus + 2]
      [] card_type = "Draw Four" -> [new_state EXCEPT !.sum_plus = s.sum_plus + 2]
      [] OTHER -> new_state

PlayEffect(s, new_state, card_type) ==
    CASE card_type = "Skip" ->
            [new_state EXCEPT !.skip = TRUE,
                !.current_player = _next_player_index(s.current_player, s.cur_dir, s.num_players)]
      [] card_type = "Reverse" ->
            IF s.num_players = 2
            THEN [new_state EXCEPT !.cur_dir = -s.cur_dir,
                    !.current_player = _next_player_index(s.current_player, -s.cur_dir, s.num_players),
                    !.skip = TRUE]
            ELSE [new_state EXCEPT !.cur_dir = -s.cur_dir]
      [] card_type = "Draw Two" -> [new_state EXCEPT !.sum_plus = s.sum_plus + 2]
      [] card_type = "Draw Four" -> [new_state EXCEPT !.sum_plus = s.sum_plus + 4]
      [] OTHER -> new_state

(* Mutant: the turn is passed in the direction held before the card's effect. *)
PlayAdvance_olddir(s, new_state, card_type) ==
    IF card_type \notin {"Skip", "Reverse"}
    THEN [new_state EXCEPT !.current_player =
            _next_player_index(s.current_player, s.cur_dir, s.num_players)]
    ELSE IF card_type = "Reverse" /\ s.num_players > 2
    THEN [new_state EXCEPT !.current_player =
            _next_player_index(s.current_player, s.cur_dir, s.num_players)]
    ELSE new_state

(* Mutant: passing the turn after an ordinary card consumes the pending skip. *)
PlayAdvance_clearsskip(s, new_state, card_type) ==
    IF card_type \notin {"Skip", "Reverse"}
    THEN [new_state EXCEPT !.skip = FALSE, !.current_player =
            _next_player_index(s.current_player, new_state.cur_dir, s.num_players)]
    ELSE IF card_type = "Reverse" /\ s.num_players > 2
    THEN [new_state EXCEPT !.current_player =
            _next_player_index(s.current_player, new_state.cur_dir, s.num_players)]
    ELSE new_state

PlayAdvance(s, new_state, card_type) ==
    IF card_type \notin {"Skip", "Reverse"}
    THEN [new_state EXCEPT !.current_player =
            _next_player_index(s.current_player, new_state.cur_dir, s.num_players)]
    ELSE IF card_type = "Reverse" /\ s.num_players > 2
    THEN [new_state EXCEPT !.current_player =
            _next_player_index(s.current_player, new_state.cur_dir, s.num_players)]
    ELSE new_state

(* Mutant: the colour of the played card becomes the active colour also for a wild card. *)
PlayCard_wildcolor(s, action) ==
    IF action.card = NoCard THEN Raise(s)
    ELSE IF ~InHand(s.hand_cards, action.card) THEN Raise(s)
    ELSE
      LET new_hand == _remove_card(s.hand_cards, action.card)
          card_color == _parse_card_string(action.card)[1]
          card_type == _parse_card_string(action.card)[2]
          s1 == [s EXCEPT !.cur_top = action.card, !.hand_cards = new_hand]
          s2 == [s1 EXCEPT !.cur_color = card_color]
          s3 == PlayEffect(s, s2, card_type)
      IN  Return(PlayAdvance(s, s3, card_type))

PlayCard(s, action) ==
    IF action.card = NoCard THEN Raise(s)
    ELSE IF ~InHand(s.hand_cards, action.card) THEN Raise(s)
    ELSE
      LET new_hand == _remove_card(s.hand_cards, action.card)
          card_color == _parse_card_string(action.card)[1]
          card_type == _parse_card_string(action.card)[2]
          s1 == [s EXCEPT !.cur_top = action.card, !.hand_cards = new_hand]
          s2 == IF card_color # "Wild" THEN [s1 EXCEPT !.cur_color = card_color] ELSE s1
          s3 == PlayEffect(s, s2, card_type)
      IN  Return(PlayAdvance(s, s3, card_type))

(* Mutant: the plus value of PLUS_N is not validated. *)
transition_unchecked(s, action) ==
    CASE action.type = "V_CARD" -> PlayCard(s, action)
      [] action.type = "NEXT_COLOR" ->
            IF action.next_color = None THEN Raise(s)
            ELSE Return([s EXCEPT !.cur_color = action.next_color])
      [] action.type = "PLUS_N" ->
            Return([s EXCEPT !.sum_plus = s.sum_plus + action.plus_value])
      [] action.type = "SKIP" ->
            Return([s EXCEPT !.skip = TRUE,
                !.current_player = _next_player_index(s.current_player, s.cur_dir, s.num_players)])
      [] action.type = "REVERSE" ->
            IF s.num_players = 2
            THEN Return([s EXCEPT !.cur_dir = -s.cur_dir,
                    !.current_player = _next_player_index(s.current_player, -s.cur_dir, s.num_players),
                    !.skip = TRUE])
            ELSE Return([s EXCEPT !.cur_dir = -s.cur_dir])
      [] action.type = "GET_NEW_CARD" ->
            IF action.card = NoCard THEN Raise(s)
            ELSE Return([s EXCEPT !.hand_cards = Append(s.hand_cards, action.card)])
      [] action.type = "UNO" -> Return([s EXCEPT !.uno = TRUE])
      [] OTHER -> Raise(s)

(* Mutant: choosing the colour also passes the turn. *)
transition_coloradvances(s, action) ==
    CASE action.type = "V_CARD" -> PlayCard(s, action)
      [] action.type = "NEXT_COLOR" ->
            IF action.next_color = None THEN Raise(s)
            ELSE Return([s EXCEPT !.cur_color = action.next_color,
                !.current_player = _next_player_index(s.current_player, s.cur_dir, s.num_players)])
      [] action.type = "PLUS_N" ->
            IF action.plus_value \notin {2, 4} THEN Raise(s)
            ELSE Return([s EXCEPT !.sum_plus = s.sum_plus + action.plus_value])
      [] action.type = "SKIP" ->
            Return([s EXCEPT !.skip = TRUE,
                !.current_player = _next_player_index(s.current_player, s.cur_dir, s.num_players)])
      [] action.type = "REVERSE" ->
            IF s.num_players = 2
            THEN Return([s EXCEPT !.cur_dir = -s.cur_dir,
                    !.current_player = _next_player_index(s.current_player, -s.cur_dir, s.num_players),
                    !.skip = TRUE])
            ELSE Return([s EXCEPT !.cur_dir = -s.cur_dir])
      [] action.type = "GET_NEW_CARD" ->
            IF action.card = NoCard THEN Raise(s)
            ELSE Return([s EXCEPT !.hand_cards = Append(s.hand_cards, action.card)])
      [] action.type = "UNO" -> Return([s EXCEPT !.uno = TRUE])
      [] OTHER -> Raise(s)

(* Mutant: drawing a card also passes the turn. *)
transition_drawpasses(s, action) ==
    CASE action.type = "V_CARD" -> PlayCard(s, action)
      [] action.type = "NEXT_COLOR" ->
            IF action.next_color = None THEN Raise(s)
            ELSE Return([s EXCEPT !.cur_color = action.next_color])
      [] action.type = "PLUS_N" ->
            IF action.plus_value \notin {2, 4} THEN Raise(s)
            ELSE Return([s EXCEPT !.sum_plus = s.sum_plus + action.plus_value])
      [] action.type = "SKIP" ->
            Return([s EXCEPT !.skip = TRUE,
                !.current_player = _next_player_index(s.current_player, s.cur_dir, s.num_players)])
      [] action.type = "REVERSE" ->
            IF s.num_players = 2
            THEN Return([s EXCEPT !.cur_dir = -s.cur_dir,
                    !.current_player = _next_player_index(s.current_player, -s.cur_dir, s.num_players),
                    !.skip = TRUE])
            ELSE Return([s EXCEPT !.cur_dir = -s.cur_dir])
      [] action.type = "GET_NEW_CARD" ->
            IF action.card = NoCard THEN Raise(s)
            ELSE Return([s EXCEPT !.hand_cards = Append(s.hand_cards, action.card),
                !.current_player = _next_player_index(s.current_player, s.cur_dir, s.num_players)])
      [] action.type = "UNO" -> Return([s EXCEPT !.uno = TRUE])
      [] OTHER -> Raise(s)

transition(s, action) ==
    CASE action.type = "V_CARD" -> PlayCard(s, action)
      [] action.type = "NEXT_COLOR" ->
            IF action.next_color = None THEN Raise(s)
            ELSE Return([s EXCEPT !.cur_color = action.next_color])
      [] action.type = "PLUS_N" ->
            IF action.plus_value \notin {2, 4} THEN Raise(s)
            ELSE Return([s EXCEPT !.sum_plus = s.sum_plus + action.plus_value])
      [] action.type = "SKIP" ->
            Return([s EXCEPT !.skip = TRUE,
                !.current_player = _next_player_index(s.current_player, s.cur_dir, s.num_players)])
      [] action.type = "REVERSE" ->
            IF s.num_players = 2
            THEN Return([s EXCEPT !.cur_dir = -s.cur_dir,
                    !.current_player = _next_player_index(s.current_player, -s.cur_dir, s.num_players),
                    !.skip = TRUE])
            ELSE Return([s EXCEPT !.cur_dir = -s.cur_dir])
      [] action.type = "GET_NEW_CARD" ->
            IF action.card = NoCard THEN Raise(s)
            ELSE Return([s EXCEPT !.hand_cards = Append(s.hand_cards, action.card)])
      [] action.type = "UNO" -> Return([s EXCEPT !.uno = TRUE])
      [] OTHER -> Raise(s)

----------------------------------------------------------------------------
(* actions.py *)

_has_color_match(hand_cards, color) ==
    IF color = None THEN FALSE
    ELSE \E i \in DOMAIN hand_cards : parse_card(hand_cards[i])[1] = color

(* Mutant: Wild-Draw Four is playable like any other wild card. *)
is_card_playable_anywild(card_str, s) ==
    IF s.cur_top = NoCard THEN FALSE
    ELSE
      LET card_color == parse_card(card_str)[1]
          card_type == parse_card(card_str)[2]
          top_type == parse_card(s.cur_top)[2]
      IN  IF card_color = "Wild" THEN TRUE
          ELSE IF card_color = s.cur_color THEN TRUE
          ELSE IF card_type = top_type THEN TRUE
          ELSE FALSE

(* Mutant: a card of another colour is not playable on a top card of its type. *)
is_card_playable_coloronly(card_str, s) ==
    IF s.cur_top = NoCard THEN FALSE
    ELSE
      LET card_color == parse_card(card_str)[1]
          card_type == parse_card(card_str)[2]
      IN  IF card_color = "Wild"
          THEN IF card_type = "Draw Four"
               THEN ~_has_color_match(s.hand_cards, s.cur_color)
               ELSE TRUE
          ELSE IF card_color = s.cur_color THEN TRUE
          ELSE FALSE

is_card_playable(card_str, s) ==
    IF s.cur_top = NoCard THEN FALSE
    ELSE
      LET card_color == parse_card(card_str)[1]
          card_type == parse_card(card_str)[2]
          top_type == parse_card(s.cur_top)[2]
      IN  IF card_color = "Wild"
          THEN IF card_type = "Draw Four"
               THEN ~_has_color_match(s.hand_cards, s.cur_color)
               ELSE TRUE
          ELSE IF card_color = s.cur_color THEN TRUE
          ELSE IF card_type = top_type THEN TRUE
          ELSE FALSE

playable_cards(s) ==
    SelectSeq(s.hand_cards, LAMBDA c : is_card_playable(c, s))

PlayActions(cards) ==
    [i \in 1..Len(cards) |-> UNOAction("V_CARD", cards[i], None, 0)]

(* Mutant: the draw is offered only to an empty hand. *)
DrawActions_emptyhand(s) ==
    IF Len(s.hand_cards) = 0
    THEN <<UNOAction("GET_NEW_CARD", NoCard, None, 0)>>
    ELSE <<>>

(* Mutant: an empty hand gets no draw action. *)
DrawActions_needscards(s) ==
    IF Len(playable_cards(s)) = 0 /\ Len(s.hand_cards) > 0
    THEN <<UNOAction("GET_NEW_CARD", NoCard, None, 0)>>
    ELSE <<>>

DrawActions(s) ==
    IF Len(playable_cards(s)) = 0
    THEN <<UNOAction("GET_NEW_CARD", NoCard, None, 0)>>
    ELSE <<>>

(* Mutant: the UNO action is offered again after the declaration. *)
UnoActions_noflag(s) ==
    IF Len(s.hand_cards) = 1
    THEN <<UNOAction("UNO", NoCard, None, 0)>>
    ELSE <<>>

UnoActions(s) ==
    IF Len(s.hand_cards) = 1 /\ ~s.uno
    THEN <<UNOAction("UNO", NoCard, None, 0)>>
    ELSE <<>>

get_legal_actions(s) ==
    PlayActions(playable_cards(s)) \o DrawActions(s) \o UnoActions(s)

is_action_valid(action, s) ==
    CASE action.type = "V_CARD" ->
            IF action.card = NoCard THEN FALSE
            ELSE InHand(s.hand_cards, action.card) /\ is_card_playable(action.card, s)
      [] action.type = "NEXT_COLOR" -> action.next_color \in Range(VALID_COLORS)
      [] action.type = "PLUS_N" ->
            IF action.plus_value \notin {2, 4} THEN FALSE
            ELSE IF action.card = NoCard THEN FALSE
            ELSE InHand(s.hand_cards, action.card) /\ is_card_playable(action.card, s)
      [] action.type = "SKIP" ->
            IF action.card = NoCard THEN FALSE
            ELSE parse_card(action.card)[2] = "Skip" /\ InHand(s.hand_cards, action.card)
      [] action.type = "REVERSE" ->
            IF action.card = NoCard THEN FALSE
            ELSE parse_card(action.card)[2] = "Reverse" /\ InHand(s.hand_cards, action.card)
      [] action.type = "GET_NEW_CARD" -> Len(playable_cards(s)) = 0
      [] action.type = "UNO" -> Len(s.hand_cards) = 1 /\ ~s.uno
      [] OTHER -> FALSE

----------------------------------------------------------------------------
(* UNOState.py: the belief filter.                                          *)
(*                                                                          *)
(* A particle is a sequence of hands, one per opponent. The random module   *)
(* is a random source src = [base, stride, rev] handed to every operator    *)
(* that draws: the i-th draw among n outcomes is IntPick(src, i, n).        *)

IntPick(src, i, n) == (src.base + i * src.stride) % n

(* tuple(...) / list(...): the sequence with every element computed *)
tuple(seq) == SelectSeq(seq, LAMBDA x : TRUE)

(* random.shuffle(deck_copy): the permutation the source yields for draw i, *)
(* a rotation of the deck, read backwards when the source says so           *)
shuffle(deck, src, i) ==
    LET n == Len(deck)
        r == IntPick(src, i, n)
    IN  [j \in 1..n |-> IF src.rev THEN deck[((n - j + r) % n) + 1]
                                   ELSE deck[((j - 1 + r) % n) + 1]]

DeckColors == <<"Blue", "Green", "Red", "Yellow">>

DeckTypes == <<"0", "1", "2", "3", "4", "5", "6", "7", "8", "9", "Skip", "Draw Two", "Reverse">>

WildTypes == <<"Wild", "Draw Four">>

WildCopies == 4

ColorCards(color) ==
    <<Card(color, DeckTypes[1])>> \o
    tuple([k \in 1..(2 * (Len(DeckTypes) - 1)) |-> Card(color, DeckTypes[((k + 1) \div 2) + 1])])

get_all_uno_cards ==
    ColorCards(DeckColors[1]) \o ColorCards(DeckColors[2]) \o
    ColorCards(DeckColors[3]) \o ColorCards(DeckColors[4]) \o
    tuple([k \in 1..(2 * WildCopies) |-> Card("Wild", WildTypes[((k - 1) % 2) + 1])])

(* list.remove(card) guarded by "card in deck_copy" *)
RemoveIfPresent(deck, card) ==
    IF InHand(deck, card) THEN _remove_card(deck, card) ELSE deck

(* The element of a one-element set: Only({ f(x) : x \in {e} }) is f(e)     *)
(* with e computed once.                                                    *)
Only(S) == CHOOSE x \in S : TRUE

(* Mutant: the known cards stay in the pool the hands are dealt from. *)
RemoveKnown_keep(deck, known) == deck

(* The loop over the known cards, in their order; the cards lo..hi are     *)
(* handled in two halves to keep the evaluation shallow                     *)
RemoveKnown(deck, known) ==
    LET RECURSIVE R(_, _, _)
        R(d, lo, hi) ==
            IF lo > hi THEN d
            ELSE IF lo = hi THEN RemoveIfPresent(d, known[lo])
            ELSE Only({ R(rest, ((lo + hi) \div 2) + 1, hi) :
                        rest \in {R(d, lo, (lo + hi) \div 2)} })
    IN  R(deck, 1, Len(known))

known_cards(player_0_hand, observed_discard_cards) ==
    player_0_hand \o observed_discard_cards

Sum(sizes) ==
    LET RECURSIVE S(_)
        S(k) == IF k = 0 THEN 0 ELSE sizes[k] + S(k - 1)
    IN  S(Len(sizes))

NotKnown(known) == SelectSeq(get_all_uno_cards, LAMBDA c : ~InHand(known, c))

(* The padding loop: candidates drawn from the full deck are appended when  *)
(* they are not known cards, until the pool is large enough.                *)
Padding(known, missing, src, i) ==
    LET pool == NotKnown(known)
    IN  tuple([k \in 1..missing |-> pool[IntPick(src, i + k, Len(pool)) + 1]])

PaddingDiverges(known, deck_copy, total_cards_needed) ==
    Len(deck_copy) < total_cards_needed /\ Len(NotKnown(known)) = 0

(* deck_copy[card_idx : card_idx + size] for every opponent *)
DealHands(deck_copy, sizes) ==
    tuple([h \in 1..Len(sizes) |->
        LET card_idx == Sum(SubSeq(sizes, 1, h - 1))
        IN  tuple([k \in 1..sizes[h] |-> deck_copy[card_idx + k]])])

(* One iteration of the particle loop; pool is the deck without the known   *)
(* cards, the same in every iteration                                       *)
initialize_particle(pool, known, sizes, src, i) ==
    LET shuffled == shuffle(pool, src, i)
        total_cards_needed == Sum(sizes)
        deck_copy == IF Len(pool) < total_cards_needed
                     THEN tuple(shuffled) \o
                          Padding(known, total_cards_needed - Len(pool), src, i)
                     ELSE shuffled
    IN  DealHands(deck_copy, sizes)

initialize_belief_particles(player_0_hand, sizes, observed_discard_cards, num_particles, src) ==
    LET known == known_cards(player_0_hand, observed_discard_cards)
        pool == RemoveKnown(get_all_uno_cards, known)
    IN  tuple([i \in 1..num_particles |-> initialize_particle(pool, known, sizes, src, i)])

initialize_diverges(player_0_hand, sizes, observed_discard_cards, num_particles) ==
    LET known == known_cards(player_0_hand, observed_discard_cards)
    IN  /\ num_particles > 0
        /\ PaddingDiverges(known, RemoveKnown(get_all_uno_cards, known), Sum(sizes))

DefaultNumParticles == 100

(* Check 1 and check 2 of the filter loop *)
is_valid(particle, obs, sizes) ==
    LET sizes_ok == /\ Len(particle) = Len(sizes)
                    /\ \A i \in 1..Len(particle) : Len(particle[i]) = sizes[i]
        opponent_idx == obs.action_player - 1
    IN  /\ sizes_ok
        /\ (obs.action_taken.type = "V_CARD" /\ obs.action_player > 0
                /\ opponent_idx < Len(particle)) =>
              InHand(particle[opponent_idx + 1], obs.action_taken.card)

(* The comprehension that removes the played card from a surviving particle *)
remove_played(particle, obs) ==
    IF obs.action_taken.type = "V_CARD" /\ obs.action_player > 0
    THEN tuple([i \in 1..Len(particle) |->
            IF i - 1 = obs.action_player - 1
            THEN SelectSeq(particle[i], LAMBDA c : c # obs.action_taken.card)
            ELSE particle[i]])
    ELSE particle

filter_particles(current, obs, sizes) ==
    LET kept == SelectSeq(current, LAMBDA p : is_valid(p, obs, sizes))
    IN  tuple([k \in 1..Len(kept) |-> remove_played(kept[k], obs)])

(* random.choices(updated_particles, k) *)
choices(population, k, src) ==
    tuple([j \in 1..k |-> population[IntPick(src, j, Len(population)) + 1]])

(* Mutant: resampling keeps the survivors instead of restoring the count. *)
resample_keep(updated, current, obs, player_0_hand, sizes, src) == updated

resample(updated, current, obs, player_0_hand, sizes, src) ==
    IF 10 * Len(updated) < 3 * Len(current)
    THEN IF Len(updated) > 0
         THEN choices(updated, Len(current), src)
         ELSE initialize_belief_particles(player_0_hand, sizes,
                    obs.observed_discard_cards, Len(current), src)
    ELSE updated

update_belief_state(current, obs, player_0_hand, sizes, src) ==
    IF Len(current) = 0
    THEN initialize_belief_particles(player_0_hand, sizes,
                obs.observed_discard_cards, DefaultNumParticles, src)
    ELSE resample(filter_particles(current, obs, sizes), current, obs,
                player_0_hand, sizes, src)

update_diverges(current, obs, player_0_hand, sizes) ==
    IF Len(current) = 0
    THEN initialize_diverges(player_0_hand, sizes, obs.observed_discard_cards,
                DefaultNumParticles)
    ELSE /\ Len(filter_particles(current, obs, sizes)) = 0
         /\ initialize_diverges(player_0_hand, sizes, obs.observed_discard_cards,
                Len(current))

(* Mutant: an index past the particle's hands is not checked. *)
sample_opponent_hand_from_belief_first(belief_particles, opponent_index, src) ==
    IF Len(belief_particles) = 0 THEN <<>>
    ELSE belief_particles[1][1]

sample_opponent_hand_from_belief(belief_particles, opponent_index, src) ==
    IF Len(belief_particles) = 0 THEN <<>>
    ELSE LET particle == belief_particles[IntPick(src, 0, Len(belief_particles)) + 1]
         IN  IF opponent_index < Len(particle)
             THEN particle[opponent_index + 1]
             ELSE <<>>

UNOObservation(action, player, discards) ==
    [action_taken |-> action, action_player |-> player, observed_discard_cards |-> discards]

----------------------------------------------------------------------------
(* MCTS.py: the search tree.                                                *)
(*                                                                          *)
(* The tree is a sequence of nodes; a node is referred to by its position,  *)
(* NoNode stands for None. Scores are kept in units of 1 / ScoreUnit and    *)
(* UCB1 values in units of 1 / UcbUnit.                                     *)

NoNode == 0

Root == 1

ScoreUnit == 10000

UcbUnit == 10000

(* float('inf') and -float('inf'): above and below every UCB1 value *)
Infinity == 1000000000

NegInfinity == -1000000000

(* MCTSPlayer's defaults for gamma and c_param: 0.99 and 1.4 *)
gamma == [num |-> 99, den |-> 100]

c_param == [num |-> 14, den |-> 10]

WithoutUno(actions) == SelectSeq(actions, LAMBDA a : a.type # "UNO")

(* Mutant: the UNO declaration is kept among the untried actions. *)
TreeNode_keepsuno(s, parent, action) ==
    [state |-> s, parent |-> parent, action |-> action,
     children |-> <<>>, visits |-> 0, score |-> 0,
     belief_particles |-> <<>>,
     untried_actions |->
        IF s.current_player = 0 THEN get_legal_actions(s) ELSE <<>>]

TreeNode(s, parent, action) ==
    [state |-> s, parent |-> parent, action |-> action,
     children |-> <<>>, visits |-> 0, score |-> 0,
     belief_particles |-> <<>>,
     untried_actions |->
        IF s.current_player = 0
        THEN IF Len(WithoutUno(get_legal_actions(s))) = 0
             THEN get_legal_actions(s)
             ELSE WithoutUno(get_legal_actions(s))
        ELSE <<>>]

is_terminal(node) == Len(get_legal_actions(node.state)) = 0

is_fully_expanded(node) == Len(node.untried_actions) = 0

(* math.log(n) for n = 1, 2, ..., in units of 1 / UcbUnit *)
LogTable == <<0, 6931, 10986, 13863, 16094, 17918, 19459, 20794, 21972, 23026>>

(* math.sqrt on the integers: the largest r with r * r <= x *)
Isqrt(x) ==
    LET RECURSIVE Search(_, _)
        Search(lo, hi) ==
            IF lo = hi THEN lo
            ELSE LET mid == (lo + hi + 1) \div 2
                 IN  IF mid * mid <= x THEN Search(mid, hi) ELSE Search(lo, mid - 1)
    IN  Search(0, 32768)

(* exploit + explore of one child *)
ucb1(self_visits, child, c) ==
    LET exploit == (child.score * UcbUnit) \div (child.visits * ScoreUnit)
        explore == (c.num * Isqrt((LogTable[self_visits] * UcbUnit) \div child.visits))
                       \div c.den
    IN  exploit + explore

child_score(self_visits, child, c) ==
    IF child.visits = 0 THEN Infinity ELSE ucb1(self_visits, child, c)

(* Mutant: a later child with an equal score replaces the best one. *)
best_child_last(nodes, id, c) ==
    LET node == nodes[id]
        RECURSIVE Loop(_, _, _)
        Loop(k, best, best_score) ==
            IF k > Len(node.children) THEN best
            ELSE LET score == child_score(node.visits, nodes[node.children[k]], c)
                 IN  IF score >= best_score
                     THEN Loop(k + 1, node.children[k], score)
                     ELSE Loop(k + 1, best, best_score)
    IN  Loop(1, NoNode, NegInfinity)

best_child(nodes, id, c) ==
    LET node == nodes[id]
        RECURSIVE Loop(_, _, _)
        Loop(k, best, best_score) ==
            IF k > Len(node.children) THEN best
            ELSE LET score == child_score(node.visits, nodes[node.children[k]], c)
                 IN  IF score > best_score
                     THEN Loop(k + 1, node.children[k], score)
                     ELSE Loop(k + 1, best, best_score)
    IN  Loop(1, NoNode, NegInfinity)

(* expand: the last untried action is popped, then applied; the result      *)
(* tells whether transition raised, and the node created                    *)
expand(nodes, id) ==
    LET node == nodes[id]
        n == Len(node.untried_actions)
    IN  IF n = 0 THEN [raised |-> FALSE, nodes |-> nodes, child |-> NoNode]
        ELSE
          LET action == node.untried_actions[n]
              popped == [nodes EXCEPT ![id].untried_actions = SubSeq(@, 1, n - 1)]
              r == transition(node.state, action)
              child == Len(nodes) + 1
          IN  IF r.raised
              THEN [raised |-> TRUE, nodes |-> popped, child |-> NoNode]
              ELSE [raised |-> FALSE,
                    nodes |-> Append([popped EXCEPT ![id].children = Append(@, child)],
                                     TreeNode(r.state, id, action)),
                    child |-> child]

(* Mutant: the reward is credited to the node alone, not to its ancestors. *)
backpropagate_nodeonly(nodes, id, reward) ==
    [nodes EXCEPT ![id].visits = @ + 1, ![id].score = @ + reward * ScoreUnit]

(* Mutant: the reward is not discounted on the way up. *)
backpropagate_undiscounted(nodes, id, reward) ==
    LET RECURSIVE Up(_, _)
        Up(ns, k) ==
            IF k = NoNode THEN ns
            ELSE Up([ns EXCEPT ![k].visits = @ + 1,
                               ![k].score = @ + reward * ScoreUnit],
                    ns[k].parent)
    IN  Up(nodes, id)

backpropagate(nodes, id, reward) ==
    LET RECURSIVE Up(_, _, _)
        Up(ns, k, discount) ==
            IF k = NoNode THEN ns
            ELSE Up([ns EXCEPT ![k].visits = @ + 1,
                               ![k].score = @ + reward * discount],
                    ns[k].parent,
                    (discount * gamma.num) \div gamma.den)
    IN  Up(nodes, id, ScoreUnit)

(* Mutant: selection descends into the best child as soon as there is one, *)
(* untried actions or not.                                                 *)
select_greedy(nodes) ==
    LET RECURSIVE Down(_)
        Down(id) ==
            IF is_terminal(nodes[id]) THEN id
            ELSE IF Len(nodes[id].children) = 0 THEN id
            ELSE LET next_node == best_child(nodes, id, c_param)
                 IN  IF next_node = NoNode THEN id ELSE Down(next_node)
    IN  Down(Root)

(* The selection loop of search: the node the simulation stops at *)
select(nodes) ==
    LET RECURSIVE Down(_)
        Down(id) ==
            IF is_terminal(nodes[id]) THEN id
            ELSE IF is_fully_expanded(nodes[id])
            THEN IF Len(nodes[id].children) = 0 THEN id
                 ELSE LET next_node == best_child(nodes, id, c_param)
                      IN  IF next_node = NoNode THEN id ELSE Down(next_node)
            ELSE id
    IN  Down(Root)

(* rollout returns 1.0 when player 0 empties the hand within max_depth and  *)
(* 0.0 otherwise                                                            *)
RolloutRewards == {0, 1}

(* Mutant: a node that was just created gets no backpropagation. *)
simulate_unvisited(nodes, reward) ==
    LET selected == select(nodes)
        expands == /\ ~is_terminal(nodes[selected])
                   /\ ~is_fully_expanded(nodes[selected])
        e == expand(nodes, selected)
    IN  IF expands
        THEN IF e.raised
             THEN [raised |-> TRUE, nodes |-> e.nodes, ended |-> NoNode]
             ELSE [raised |-> FALSE, nodes |-> e.nodes, ended |-> e.child]
        ELSE [raised |-> FALSE,
              nodes |-> backpropagate(nodes, selected, reward),
              ended |-> selected]

(* One iteration of the simulation loop, for the reward its rollout gives:  *)
(* selection, expansion, backpropagation. "ended" is the node the           *)
(* backpropagation started at.                                              *)
simulate(nodes, reward) ==
    LET selected == select(nodes)
        expands == /\ ~is_terminal(nodes[selected])
                   /\ ~is_fully_expanded(nodes[selected])
        e == expand(nodes, selected)
    IN  IF expands
        THEN IF e.raised
             THEN [raised |-> TRUE, nodes |-> e.nodes, ended |-> NoNode]
             ELSE [raised |-> FALSE,
                   nodes |-> backpropagate(e.nodes, e.child, reward),
                   ended |-> e.child]
        ELSE [raised |-> FALSE,
              nodes |-> backpropagate(nodes, selected, reward),
              ended |-> selected]

(* Mutant: the best average score decides, not the visit count. *)
most_visited_byscore(nodes) ==
    LET root == nodes[Root]
        RECURSIVE Loop(_, _, _)
        Loop(k, best, best_value) ==
            IF k > Len(root.children) THEN best
            ELSE LET child == nodes[root.children[k]]
                     value == IF child.visits = 0 THEN 0
                              ELSE child.score \div child.visits
                 IN  IF value > best_value
                     THEN Loop(k + 1, root.children[k], value)
                     ELSE Loop(k + 1, best, best_value)
    IN  Loop(1, NoNode, -1)

(* The loop after the simulations: the root child with the most visits *)
most_visited(nodes) ==
    LET root == nodes[Root]
        RECURSIVE Loop(_, _, _)
        Loop(k, best, best_visits) ==
            IF k > Len(root.children) THEN best
            ELSE LET child == nodes[root.children[k]]
                 IN  IF child.visits > best_visits
                     THEN Loop(k + 1, root.children[k], child.visits)
                     ELSE Loop(k + 1, best, best_visits)
    IN  Loop(1, NoNode, -1)

----------------------------------------------------------------------------
(* States the planner is started from, and the inputs of one transition *)

InitialHandSize == 7

UNOState(deal, n, cur, dir) ==
    [cur_color |-> deal.color,
     cur_dir |-> dir,
     cur_top |-> deal.top,
     skip |-> FALSE,
     sum_plus |-> 0,
     hand_cards |-> deal.hand,
     opponents_cards_num |-> [i \in 1..(n - 1) |-> InitialHandSize],
     belief |-> [i \in 1..(n - 1) |-> <<>>],
     uno |-> FALSE,
     current_player |-> cur,
     num_players |-> n]

Deal(hand, top, color) == [hand |-> hand, top |-> top, color |-> color]

ExampleHand ==
    <<Card("Blue", "7"), Card("Red", "5"), Card("Wild", "Wild"), Card("Green", "Skip")>>

ExampleDeal == Deal(ExampleHand, Card("Blue", "5"), "Blue")

InitDeals ==
    { ExampleDeal,
      Deal(<<Card("Red", "Skip"), Card("Blue", "7")>>, Card("Red", "5"), "Red"),
      Deal(<<Card("Blue", "Reverse"), Card("Red", "5"), Card("Blue", "Reverse")>>,
           Card("Blue", "5"), "Blue"),
      Deal(<<Card("Red", "Draw Two"), Card("Wild", "Draw Four"), Card("Blue", "7")>>,
           Card("Green", "Skip"), "Green"),
      Deal(<<Card("Wild", "Draw Four"), Card("Blue", "7")>>,
           Card("Wild", "Draw Four"), "Blue"),
      Deal(<<Card("Red", "5")>>, Card("Blue", "7"), "Blue"),
      Deal(<<Card("Red", "5"), Card("Green", "Skip")>>, Card("Blue", "7"), "Blue"),
      Deal(<<>>, Card("Blue", "5"), "Blue"),
      Deal(<<Card("Blue", "7")>>, NoCard, None),
      Deal(<<Card("Wild", "Wild")>>, Card("Wild", "Wild"), "Yellow") }

DrawCards == {Card("Blue", "7"), Card("Wild", "Draw Four"), Card("Red", "Reverse")}

PlusValues == {0, 2, 4}

NoAction == UNOAction("NONE", NoCard, None, 0)

AddsToSumPlus(action) ==
    CASE action.type = "PLUS_N" -> action.plus_value
      [] action.type = "V_CARD" /\ action.card.type = "Draw Two" -> 2
      [] action.type = "V_CARD" /\ action.card.type = "Draw Four" -> 4
      [] OTHER -> 0

----------------------------------------------------------------------------
(* MCTS.py: the rollout.                                                    *)
(*                                                                          *)
(* The random choices of one rollout step are a record ch: pick (the        *)
(* random.choice among actions or playable cards), plays (random.random()   *)
(* < 0.8), color (the colour chosen after a wild card), drawn (the card     *)
(* _simulate_draw_card returns) and src (the source of the belief filter).  *)

_simulate_draw_card(ch) == ch.drawn

(* observation(...): the action, its player and the cards seen played *)
observation(action, action_player, observed_discard_history) ==
    UNOObservation(action, action_player,
        IF action.type = "V_CARD" /\ action.card # NoCard
        THEN Append(observed_discard_history, action.card)
        ELSE observed_discard_history)

(* The playable cards of the sampled hand, as the opponent turn finds them *)
opponent_playable_cards(s, opponent_hand) ==
    SelectSeq(opponent_hand, LAMBDA c : is_card_playable(c, s))

(* opponent_sizes[opponent_idx] += delta, never below zero on a play *)
adjust_size(sizes, opponent_idx, delta) ==
    IF opponent_idx < Len(sizes) /\ (delta > 0 \/ sizes[opponent_idx + 1] > 0)
    THEN [sizes EXCEPT ![opponent_idx + 1] = @ + delta]
    ELSE sizes

(* Mutant: the agent's hand is not restored after the transition. *)
_simulate_opponent_turn_with_belief_leaks(s, opponent_hand, opponent_idx, ch) ==
    LET playable == opponent_playable_cards(s, opponent_hand)
        temp_state == [s EXCEPT !.hand_cards = opponent_hand]
    IN  IF Len(playable) > 0 /\ ch.plays
        THEN
          LET played_card == playable[(ch.pick % Len(playable)) + 1]
              action == UNOAction("V_CARD", played_card, None, 0)
              r == transition(temp_state, action)
              restored == r.state
              coloured ==
                  IF parse_card(played_card)[1] = "Wild"
                  THEN transition(restored,
                            UNOAction("NEXT_COLOR", NoCard, ch.color, 0)).state
                  ELSE restored
          IN  [raised |-> r.raised,
               state |-> [coloured EXCEPT !.opponents_cards_num =
                            adjust_size(coloured.opponents_cards_num, opponent_idx, -1)],
               played_card |-> played_card,
               action |-> action]
        ELSE
          LET drawn_card == _simulate_draw_card(ch)
              action == UNOAction("GET_NEW_CARD", drawn_card, None, 0)
              r == transition(temp_state, action)
              restored == r.state
          IN  [raised |-> r.raised,
               state |-> [restored EXCEPT !.opponents_cards_num =
                            adjust_size(restored.opponents_cards_num, opponent_idx, 1)],
               played_card |-> NoCard,
               action |-> action]

_simulate_opponent_turn_with_belief(s, opponent_hand, opponent_idx, ch) ==
    LET playable == opponent_playable_cards(s, opponent_hand)
        temp_state == [s EXCEPT !.hand_cards = opponent_hand]
    IN  IF Len(playable) > 0 /\ ch.plays
        THEN
          LET played_card == playable[(ch.pick % Len(playable)) + 1]
              action == UNOAction("V_CARD", played_card, None, 0)
              r == transition(temp_state, action)
              restored == [r.state EXCEPT !.hand_cards = s.hand_cards]
              coloured ==
                  IF parse_card(played_card)[1] = "Wild"
                  THEN [transition(restored,
                            UNOAction("NEXT_COLOR", NoCard, ch.color, 0)).state
                        EXCEPT !.hand_cards = s.hand_cards]
                  ELSE restored
          IN  [raised |-> r.raised,
               state |-> [coloured EXCEPT !.opponents_cards_num =
                            adjust_size(coloured.opponents_cards_num, opponent_idx, -1)],
               played_card |-> played_card,
               action |-> action]
        ELSE
          LET drawn_card == _simulate_draw_card(ch)
              action == UNOAction("GET_NEW_CARD", drawn_card, None, 0)
              r == transition(temp_state, action)
              restored == [r.state EXCEPT !.hand_cards = s.hand_cards]
          IN  [raised |-> r.raised,
               state |-> [restored EXCEPT !.opponents_cards_num =
                            adjust_size(restored.opponents_cards_num, opponent_idx, 1)],
               played_card |-> NoCard,
               action |-> action]

(* The rollout loop's body on player 0's turn. The result tells the state,  *)
(* the belief, the action taken, whether the rollout returns and with what  *)
(* reward, whether a call raised and whether the belief filter never ends.  *)
rollout_agent_step(s, current_belief, ch) ==
    LET actions == get_legal_actions(s)
        chosen == actions[(ch.pick % Len(actions)) + 1]
        a == IF chosen.type = "GET_NEW_CARD" /\ chosen.card = NoCard
             THEN UNOAction("GET_NEW_CARD", _simulate_draw_card(ch), None, 0)
             ELSE chosen
        obs == observation(a, 0, <<>>)
    IN  IF Len(actions) = 0
        THEN [state |-> s, belief |-> current_belief, action |-> NoAction,
              raised |-> FALSE, hung |-> FALSE, returns |-> TRUE, reward |-> 0,
              opponent_hand |-> <<>>, playable |-> <<>>]
        ELSE Only({
              [state |-> r.state,
               belief |-> IF r.raised \/ hangs THEN current_belief
                          ELSE update_belief_state(current_belief, obs,
                                   r.state.hand_cards, r.state.opponents_cards_num,
                                   ch.src),
               action |-> a,
               raised |-> r.raised,
               hung |-> ~r.raised /\ hangs,
               returns |-> ~r.raised /\ ~hangs /\ Len(r.state.hand_cards) = 0,
               reward |-> 1,
               opponent_hand |-> <<>>, playable |-> <<>>] :
              r \in {transition(s, a)},
              hangs \in {update_diverges(current_belief, obs,
                             transition(s, a).state.hand_cards,
                             transition(s, a).state.opponents_cards_num)} })

(* The rollout loop's body on an opponent's turn *)
rollout_opponent_step(s, current_belief, ch) ==
    LET opponent_idx == s.current_player - 1
        sampled(belief) ==
            IF Len(belief) > 0
            THEN sample_opponent_hand_from_belief(belief, opponent_idx, ch.src)
            ELSE <<>>
        Turn(opponent_hand) ==
            Only({
              Only({
                [state |-> t.state,
                 belief |-> IF t.raised \/ hangs THEN current_belief
                            ELSE update_belief_state(current_belief,
                                     observation(t.action, s.current_player, <<>>),
                                     t.state.hand_cards,
                                     t.state.opponents_cards_num, ch.src),
                 action |-> t.action,
                 raised |-> t.raised,
                 hung |-> ~t.raised /\ hangs,
                 returns |-> /\ ~t.raised /\ ~hangs
                             /\ opponent_idx < Len(t.state.opponents_cards_num)
                             /\ t.state.opponents_cards_num[opponent_idx + 1] = 0,
                 reward |-> 0,
                 opponent_hand |-> opponent_hand,
                 playable |-> opponent_playable_cards(s, opponent_hand)] :
                hangs \in {update_diverges(current_belief,
                               observation(t.action, s.current_player, <<>>),
                               t.state.hand_cards,
                               t.state.opponents_cards_num)} }) :
              t \in {_simulate_opponent_turn_with_belief(s, opponent_hand,
                                                         opponent_idx, ch)} })
    IN  Only({ Turn(opponent_hand) : opponent_hand \in {sampled(current_belief)} })

(* Mutant: emptying the agent's hand is rewarded with 0.0. *)
rollout_step_neverwins(s, current_belief, ch) ==
    IF s.current_player = 0
    THEN [rollout_agent_step(s, current_belief, ch) EXCEPT !.reward = 0]
    ELSE rollout_opponent_step(s, current_belief, ch)

rollout_step(s, current_belief, ch) ==
    IF s.current_player = 0
    THEN rollout_agent_step(s, current_belief, ch)
    ELSE rollout_opponent_step(s, current_belief, ch)

----------------------------------------------------------------------------
(* The planner's belief before the first decision of a round *)
BfIdle ==
    [particles |-> <<>>, before |-> <<>>, op |-> "none",
     obs |-> UNOObservation(NoAction, 0, <<>>), sizes |-> <<>>,
     hand |-> <<>>, discards |-> <<>>, num |-> 0,
     index |-> 0, sampled |-> <<>>, hung |-> FALSE, ops |-> 0]

(* No search has been started *)
McIdle ==
    [phase |-> "idle", nodes |-> <<>>, before |-> <<>>, op |-> "none",
     num_simulations |-> 0, i |-> 0,
     ended |-> <<>>, rewards |-> <<>>, started |-> <<>>, called |-> NoNode,
     returned |-> NoNode, ops |-> 0]

(* No rollout has been started *)
RoIdle ==
    [phase |-> "idle", belief |-> <<>>, max_depth |-> 0, depth |-> 0,
     reward |-> 0, actor |-> "none", opponent_hand |-> <<>>, playable |-> <<>>]

Init ==
    /\ \E deal \in InitDeals, n \in 2..MaxPlayers, dir \in {1, -1} :
         \E cur \in 0..(n - 1) : state = UNOState(deal, n, cur, dir)
    /\ prev = state
    /\ last = NoAction
    /\ raised = FALSE
    /\ steps = 0
    /\ bf = BfIdle
    /\ mc = McIdle
    /\ ro = RoIdle
    /\ tw = McIdle

Apply(action) ==
    /\ steps < MaxSteps
    /\ state.sum_plus + AddsToSumPlus(action) <= MaxSumPlus
    /\ LET r == transition(state, action)
       IN  /\ state' = r.state
           /\ raised' = r.raised
    /\ prev' = state
    /\ last' = action
    /\ steps' = steps + 1
    /\ UNCHANGED <<bf, mc, ro, tw>>

Step_V_CARD ==
    \E c \in Range(state.hand_cards) \cup DrawCards \cup {NoCard} :
        Apply(UNOAction("V_CARD", c, None, 0))

Step_NEXT_COLOR ==
    \E col \in Range(VALID_COLORS) \cup {None} :
        Apply(UNOAction("NEXT_COLOR", NoCard, col, 0))

Step_PLUS_N ==
    \E n \in PlusValues : Apply(UNOAction("PLUS_N", NoCard, None, n))

Step_SKIP == Apply(UNOAction("SKIP", NoCard, None, 0))

Step_REVERSE == Apply(UNOAction("REVERSE", NoCard, None, 0))

Step_GET_NEW_CARD ==
    /\ Len(state.hand_cards) < MaxHand
    /\ \E c \in DrawCards \cup {NoCard} :
        Apply(UNOAction("GET_NEW_CARD", c, None, 0))

Step_UNO == Apply(UNOAction("UNO", NoCard, None, 0))

Next ==
    \/ Step_V_CARD
    \/ Step_NEXT_COLOR
    \/ Step_PLUS_N
    \/ Step_SKIP
    \/ Step_REVERSE
    \/ Step_GET_NEW_CARD
    \/ Step_UNO

Spec == Init /\ [][Next]_vars

TypeOK ==
    /\ state.cur_dir \in {1, -1}
    /\ state.current_player \in 0..(state.num_players - 1)
    /\ steps \in 0..MaxSteps

----------------------------------------------------------------------------
(* Vocabulary used by the properties *)

Colors == {"Blue", "Green", "Red", "Yellow", "Wild"}

Types == {"0", "1", "2", "3", "4", "5", "6", "7", "8", "9",
          "Skip", "Draw Two", "Reverse", "Wild", "Draw Four"}

CardStrings == {Card(c, t) : c \in Colors, t \in Types}

DrawUnknown == UNOAction("GET_NEW_CARD", NoCard, None, 0)

DeclareUno == UNOAction("UNO", NoCard, None, 0)

Play(c) == UNOAction("V_CARD", c, None, 0)

Played == last.type = "V_CARD" /\ ~raised

WasLegal == \E i \in DOMAIN get_legal_actions(prev) : get_legal_actions(prev)[i] = last

DrawWasLegal == \E i \in DOMAIN get_legal_actions(prev) : get_legal_actions(prev)[i] = DrawUnknown

WellFormedResult ==
    /\ state.cur_dir \in {1, -1}
    /\ Len(state.opponents_cards_num) = state.num_players - 1

HandDelta ==
    CASE last.type = "V_CARD" -> -1
      [] last.type = "GET_NEW_CARD" -> 1
      [] OTHER -> 0

NoHandCardPlayable == \A i \in DOMAIN state.hand_cards : ~is_card_playable(state.hand_cards[i], state)

HandHasActiveColor == \E i \in DOMAIN state.hand_cards : state.hand_cards[i].color = state.cur_color

Count(hand, c) == Cardinality({i \in DOMAIN hand : hand[i] = c})

Others(hand, c) == SelectSeq(hand, LAMBDA x : x # c)

----------------------------------------------------------------------------
(* C1 as stated: every action of get_legal_actions(S), the draw with        *)
(* unknown card included, is accepted by transition and gives a well-formed *)
(* state with the hand size changed by -1 for a play and +1 for a draw.     *)
C1_TotalOverLegalActions ==
    (steps > 0 /\ WasLegal) =>
        /\ ~raised
        /\ WellFormedResult
        /\ Len(state.hand_cards) = Len(prev.hand_cards) + HandDelta

(* C1 amended: transition accepts every action of get_legal_actions(S)      *)
(* except the draw with unknown card, which it rejects leaving S as it was; *)
(* once the caller binds the drawn card the draw is accepted; the result is *)
(* well formed and the hand size changes by -1 for a play, +1 for a draw    *)
(* and 0 for the UNO action.                                                *)
C1_TotalOverBoundLegalActions ==
    /\ (steps > 0 /\ WasLegal /\ last # DrawUnknown) =>
            /\ ~raised
            /\ WellFormedResult
            /\ Len(state.hand_cards) = Len(prev.hand_cards) + HandDelta
    /\ (steps > 0 /\ last = DrawUnknown) => (raised /\ state = prev)
    /\ (steps > 0 /\ DrawWasLegal /\ last.type = "GET_NEW_CARD" /\ last.card # NoCard) =>
            /\ ~raised
            /\ WellFormedResult
            /\ Len(state.hand_cards) = Len(prev.hand_cards) + 1

C1_Witness ==
    /\ Played /\ WasLegal
    /\ Count(prev.hand_cards, last.card) = 2
    /\ Len(state.hand_cards) = Len(prev.hand_cards) - 1

(* C2 as stated: playing a Skip card moves current_player two positions in  *)
(* the current direction (mod num_players) and keeps cur_dir.               *)
C2_SkipAdvancesTwo ==
    (Played /\ last.card.type = "Skip") =>
        /\ state.current_player =
                (prev.current_player + 2 * prev.cur_dir) % prev.num_players
        /\ state.cur_dir = prev.cur_dir

(* C3 as stated: a card is playable exactly when the top card is set and    *)
(* its colour is the active colour, or its type is the top card's type, or  *)
(* it is a Wild other than Draw Four, or it is Wild-Draw Four and no hand   *)
(* card has the active colour.                                              *)
C3_PlayableIffAnyRule ==
    \A c \in CardStrings :
        is_card_playable(c, state) <=>
            /\ state.cur_top # NoCard
            /\ \/ c.color = state.cur_color
               \/ c.type = state.cur_top.type
               \/ (c.color = "Wild" /\ c.type # "Draw Four")
               \/ (c = Card("Wild", "Draw Four") /\ ~HandHasActiveColor)

(* C3 amended: with the top card set, a card that is not wild is playable   *)
(* exactly when its colour is the active colour or its type is the top      *)
(* card's type; a wild card other than Draw Four is always playable; and    *)
(* Wild-Draw Four is playable exactly when no hand card has the active      *)
(* colour, also when the top card is itself a Draw Four. With no top card   *)
(* nothing is playable.                                                     *)
C3_PlayableByCardKind ==
    \A c \in CardStrings :
        is_card_playable(c, state) <=>
            /\ state.cur_top # NoCard
            /\ IF c.color = "Wild"
               THEN c.type = "Draw Four" => ~HandHasActiveColor
               ELSE c.color = state.cur_color \/ c.type = state.cur_top.type

C3_Witness ==
    /\ InHand(state.hand_cards, Card("Wild", "Draw Four"))
    /\ HandHasActiveColor
    /\ state.cur_top.type = "Draw Four"
    /\ ~is_card_playable(Card("Wild", "Draw Four"), state)

IsExampleState ==
    /\ state.hand_cards = ExampleHand
    /\ state.cur_top = Card("Blue", "5")
    /\ state.cur_color = "Blue"
    /\ state.opponents_cards_num = <<7, 7, 7>>

(* C4 as stated: in the example state (hand Blue-7, Red-5, Wild-Wild,       *)
(* Green-Skip; top Blue-5; colour Blue; opponents 7,7,7) get_legal_actions  *)
(* returns exactly the plays of Blue-7 and Wild-Wild.                       *)
C4_ExampleTwoPlays ==
    IsExampleState =>
        get_legal_actions(state) = <<Play(Card("Blue", "7")), Play(Card("Wild", "Wild"))>>

(* C4 amended: in the example state get_legal_actions returns exactly the   *)
(* three plays Blue-7, Red-5 and Wild-Wild, in hand order: Red-5 matches    *)
(* the type of the top card Blue-5; only Green-Skip gets no action.         *)
C4_ExampleThreePlays ==
    IsExampleState =>
        get_legal_actions(state) =
            <<Play(Card("Blue", "7")), Play(Card("Red", "5")), Play(Card("Wild", "Wild"))>>

C4_Witness ==
    /\ IsExampleState
    /\ state.current_player = 0
    /\ state.num_players = 4
    /\ Len(get_legal_actions(state)) = 3

(* C5 as stated: when no hand card is playable get_legal_actions returns    *)
(* the draw with unknown card and nothing else, whatever the hand size and  *)
(* the UNO flag.                                                            *)
C5_OnlyDrawWhenNothingPlayable ==
    NoHandCardPlayable => get_legal_actions(state) = <<DrawUnknown>>

(* C5 amended: when no hand card is playable get_legal_actions returns no   *)
(* play, exactly one draw with unknown card, and after it the UNO action    *)
(* exactly when the hand has one card and the UNO flag is false.            *)
C5_DrawThenUnoWhenNothingPlayable ==
    NoHandCardPlayable =>
        get_legal_actions(state) =
            IF Len(state.hand_cards) = 1 /\ ~state.uno
            THEN <<DrawUnknown, DeclareUno>>
            ELSE <<DrawUnknown>>

C5_Witness ==
    /\ NoHandCardPlayable
    /\ Len(state.hand_cards) = 1
    /\ ~state.uno
    /\ state.cur_top # NoCard
    /\ Len(get_legal_actions(state)) = 2

(* C6: get_legal_actions contains the UNO action iff the hand has exactly   *)
(* one card and the UNO flag is false, and is_action_valid agrees.          *)
C6_UnoIffOneCardUndeclared ==
    /\ (\E i \in DOMAIN get_legal_actions(state) : get_legal_actions(state)[i].type = "UNO")
            <=> (Len(state.hand_cards) = 1 /\ ~state.uno)
    /\ is_action_valid(DeclareUno, state) <=> (Len(state.hand_cards) = 1 /\ ~state.uno)

C6_Witness ==
    /\ last = DeclareUno
    /\ Len(state.hand_cards) = 1
    /\ state.uno
    /\ ~prev.uno
    /\ ~is_action_valid(DeclareUno, state)

(* C7 as stated: in a two-player game a played Reverse flips cur_dir and    *)
(* the player who played it is the current player again.                    *)
C7_TwoPlayerReverseKeepsTurn ==
    (Played /\ last.card.type = "Reverse" /\ prev.num_players = 2) =>
        /\ state.cur_dir = -prev.cur_dir
        /\ state.current_player = prev.current_player

(* C8: with more than two players a played Reverse negates cur_dir, passes  *)
(* the turn to (current_player + new cur_dir) mod num_players and leaves    *)
(* skip and sum_plus as they were.                                          *)
C8_ReversePassesToFlippedNeighbour ==
    (Played /\ last.card.type = "Reverse" /\ prev.num_players > 2) =>
        /\ state.cur_dir = -prev.cur_dir
        /\ state.current_player =
                (prev.current_player + state.cur_dir) % prev.num_players
        /\ state.skip = prev.skip
        /\ state.sum_plus = prev.sum_plus

C8_Witness ==
    /\ Played /\ last.card.type = "Reverse"
    /\ prev.num_players = 4
    /\ prev.current_player = 0 /\ prev.cur_dir = 1
    /\ state.current_player = 3 /\ state.cur_dir = -1

(* C9: a play of a card c of the hand removes exactly one instance of c     *)
(* (the other cards keep their order), makes c the top card, sets the       *)
(* colour to c's colour unless c is wild (then the colour is kept), and for *)
(* a card that is neither Skip nor Reverse gives the turn to                *)
(* (current_player + cur_dir) mod num_players.                              *)
C9_PlayRemovesOneAndSetsTop ==
    (last.type = "V_CARD" /\ InHand(prev.hand_cards, last.card)) =>
        /\ ~raised
        /\ Len(state.hand_cards) = Len(prev.hand_cards) - 1
        /\ Count(state.hand_cards, last.card) = Count(prev.hand_cards, last.card) - 1
        /\ Others(state.hand_cards, last.card) = Others(prev.hand_cards, last.card)
        /\ state.cur_top = last.card
        /\ state.cur_color =
                IF last.card.color = "Wild" THEN prev.cur_color ELSE last.card.color
        /\ last.card.type \notin {"Skip", "Reverse"} =>
                state.current_player =
                    (prev.current_player + prev.cur_dir) % prev.num_players

C9_Witness ==
    /\ Played
    /\ last.card.color = "Wild"
    /\ state.cur_top = last.card
    /\ state.cur_color = "Green"
    /\ Len(state.hand_cards) = 2

(* C10: a played Draw Two adds exactly 2 and a played Draw Four exactly 4   *)
(* to sum_plus, the turn advances one position, and no hand size changes    *)
(* for the penalty (the own hand only loses the played card); a standalone  *)
(* PLUS_N(n), n in {2,4}, adds n to sum_plus and changes nothing else.      *)
C10_DrawPenaltyOnlyAccumulates ==
    /\ (Played /\ last.card.type \in {"Draw Two", "Draw Four"}) =>
            /\ state.sum_plus =
                    prev.sum_plus + (IF last.card.type = "Draw Two" THEN 2 ELSE 4)
            /\ state.current_player =
                    (prev.current_player + prev.cur_dir) % prev.num_players
            /\ state.cur_dir = prev.cur_dir
            /\ state.opponents_cards_num = prev.opponents_cards_num
            /\ Len(state.hand_cards) = Len(prev.hand_cards) - 1
    /\ (last.type = "PLUS_N" /\ last.plus_value \in {2, 4}) =>
            /\ ~raised
            /\ state = [prev EXCEPT !.sum_plus = prev.sum_plus + last.plus_value]

C10_Witness ==
    /\ Played
    /\ last.card = Card("Wild", "Draw Four")
    /\ prev.sum_plus = 2
    /\ state.sum_plus = 6

(* C11: along any sequence of transitions cur_dir stays +1 or -1,           *)
(* current_player stays in 0..num_players-1, a changed current_player is    *)
(* (previous + direction) mod num_players, num_players does not change and  *)
(* opponents_cards_num keeps num_players - 1 entries.                       *)
C11_StateStaysWellFormed ==
    /\ state.cur_dir \in {1, -1}
    /\ state.current_player \in 0..(state.num_players - 1)
    /\ state.num_players = prev.num_players
    /\ Len(state.opponents_cards_num) = state.num_players - 1
    /\ state.current_player # prev.current_player =>
            state.current_player =
                (prev.current_player + state.cur_dir) % prev.num_players

C11_Witness ==
    /\ steps >= 2
    /\ ~raised
    /\ state.num_players = 3
    /\ prev.current_player = 2
    /\ state.cur_dir = 1
    /\ state.current_player = 0

Malformed(s, action) ==
    \/ action.type = "V_CARD" /\ action.card = NoCard
    \/ action.type = "V_CARD" /\ ~InHand(s.hand_cards, action.card)
    \/ action.type = "NEXT_COLOR" /\ action.next_color = None
    \/ action.type = "PLUS_N" /\ action.plus_value \notin {2, 4}
    \/ action.type = "GET_NEW_CARD" /\ action.card = NoCard

(* C12: a play with no card, a play of a card that is not in the hand, a    *)
(* colour choice with no colour, a PLUS_N outside {2,4} and a draw with no  *)
(* concrete card are each rejected with an error, and the state is left as  *)
(* it was (no successor state).                                             *)
C12_MalformedActionsRejected ==
    (steps > 0 /\ Malformed(prev, last)) => (raised /\ state = prev)

C12_Witness ==
    /\ last.type = "V_CARD"
    /\ last.card # NoCard
    /\ ~InHand(prev.hand_cards, last.card)
    /\ Len(prev.hand_cards) > 0
    /\ raised
    /\ state = prev

----------------------------------------------------------------------------
(* The belief filter as the planner drives it: the belief is initialised    *)
(* when it is empty, updated after every observed action, sampled by the    *)
(* rollouts and emptied by reset.                                           *)

(* Seeds of the random module *)
Seeds == {0, 1}

RandomSources == [base : Seeds, stride : {0, 1}, rev : BOOLEAN]

NoRandom == [base |-> 0, stride |-> 0, rev |-> FALSE]

(* Own hand and seen discards of the observer *)
Known(hand, discards) == [hand |-> hand, discards |-> discards]

BeliefKnown ==
    { Known(<<Card("Blue", "0")>>, <<>>),
      Known(<<Card("Blue", "0")>>, <<Card("Blue", "0")>>),
      Known(<<Card("Blue", "1"), Card("Red", "5")>>, <<Card("Wild", "Draw Four")>>),
      Known(<<Card("Blue", "0")>>, get_all_uno_cards) }

BeliefSizes == { <<2>>, <<1>>, <<1, 2>> }

ObservedActions ==
    { Play(Card("Blue", "1")), UNOAction("GET_NEW_CARD", NoCard, None, 0) }

Observers == 0..2

SampleIndexes == 0..1

(* random.choice draws once: only the base of the source matters *)
ChoiceSources == {src \in RandomSources : src.stride = 0 /\ ~src.rev}

(* An update of an empty belief ignores the observed action and its player *)
FirstObservedActions == { UNOAction("GET_NEW_CARD", NoCard, None, 0) }

FirstObservers == {1}

FirstSources == {src \in RandomSources : src.stride = 1 /\ ~src.rev}

BfBusy == bf.hung \/ bf.op = "sample"

BF_Initialize ==
    /\ bf.ops < MaxBeliefOps /\ ~BfBusy
    /\ Len(bf.particles) = 0
    /\ \E known \in BeliefKnown, sizes \in BeliefSizes,
          num \in {1, MaxParticles}, src \in RandomSources :
         LET hangs == initialize_diverges(known.hand, sizes, known.discards, num)
         IN  bf' = [bf EXCEPT
                      !.before = bf.particles,
                      !.op = "initialize",
                      !.hand = known.hand, !.discards = known.discards,
                      !.sizes = sizes, !.num = num,
                      !.hung = hangs,
                      !.particles =
                          IF hangs THEN bf.particles
                          ELSE initialize_belief_particles(known.hand, sizes,
                                    known.discards, num, src),
                      !.ops = bf.ops + 1]
    /\ UNCHANGED <<state, prev, last, raised, steps, mc, ro, tw>>

(* The random source matters to an update only when it initialises or resamples *)
UpdateDraws(current, obs, sizes) ==
    \/ Len(current) = 0
    \/ 10 * Len(filter_particles(current, obs, sizes)) < 3 * Len(current)

BF_Update ==
    /\ bf.ops < MaxBeliefOps /\ ~BfBusy
    /\ \E action \in (IF Len(bf.particles) = 0 THEN FirstObservedActions ELSE ObservedActions),
          player \in (IF Len(bf.particles) = 0 THEN FirstObservers ELSE Observers),
          sizes \in (IF Len(bf.particles) = 0 THEN BeliefSizes
                     ELSE {z \in BeliefSizes : Len(z) = Len(bf.sizes)}) :
         \E known \in (IF bf.op \in {"none", "reset"} THEN BeliefKnown
                       ELSE {Known(bf.hand, bf.discards)}) :
           LET obs == UNOObservation(action, player, known.discards)
               hangs == update_diverges(bf.particles, obs, known.hand, sizes)
           IN  \E src \in (IF Len(bf.particles) = 0 THEN FirstSources
                           ELSE IF UpdateDraws(bf.particles, obs, sizes)
                           THEN RandomSources ELSE {NoRandom}) :
                 bf' = [bf EXCEPT
                          !.before = bf.particles,
                          !.op = "update",
                          !.obs = obs, !.sizes = sizes,
                          !.hand = known.hand, !.discards = known.discards,
                          !.hung = hangs,
                          !.particles =
                              IF hangs THEN bf.particles
                              ELSE update_belief_state(bf.particles, obs,
                                        known.hand, sizes, src),
                          !.ops = bf.ops + 1]
    /\ UNCHANGED <<state, prev, last, raised, steps, mc, ro, tw>>

(* A sample leaves the belief as it is: the behaviours after it are those   *)
(* of the state it was taken in, so the model ends a behaviour with it.     *)
BF_Sample ==
    /\ ~BfBusy
    /\ \E index \in SampleIndexes, src \in ChoiceSources :
         bf' = [bf EXCEPT
                  !.before = bf.particles,
                  !.op = "sample",
                  !.index = index,
                  !.sampled = sample_opponent_hand_from_belief(bf.particles, index, src)]
    /\ UNCHANGED <<state, prev, last, raised, steps, mc, ro, tw>>

BF_Reset ==
    /\ ~BfBusy
    /\ bf.op \in {"initialize", "update"}
    /\ bf' = [BfIdle EXCEPT !.before = bf.particles, !.op = "reset", !.ops = bf.ops]
    /\ UNCHANGED <<state, prev, last, raised, steps, mc, ro, tw>>

InitBelief ==
    /\ state = UNOState(ExampleDeal, 4, 0, 1)
    /\ prev = state
    /\ last = NoAction
    /\ raised = FALSE
    /\ steps = 0
    /\ bf = BfIdle
    /\ mc = McIdle
    /\ ro = RoIdle
    /\ tw = McIdle

NextBelief ==
    \/ BF_Initialize
    \/ BF_Update
    \/ BF_Sample
    \/ BF_Reset

SpecBelief == InitBelief /\ [][NextBelief]_vars

----------------------------------------------------------------------------
(* Vocabulary of the belief properties *)

Updated == bf.op = "update" /\ ~bf.hung /\ Len(bf.before) > 0

(* The observation says that opponent i (player i + 1), one of the        *)
(* opponents the sizes are given for, played a card                      *)
OpponentPlayed ==
    /\ bf.obs.action_taken.type = "V_CARD"
    /\ bf.obs.action_player \in 1..Len(bf.sizes)

Survivors == filter_particles(bf.before, bf.obs, bf.sizes)

(* q is p after opponent i played c once *)
PlayedOnce(p, q, i, c) ==
    /\ i + 1 \in DOMAIN p
    /\ InHand(p[i + 1], c)
    /\ Len(q) = Len(p)
    /\ Count(q[i + 1], c) = Count(p[i + 1], c) - 1
    /\ Others(q[i + 1], c) = Others(p[i + 1], c)
    /\ \A h \in DOMAIN p : h # i + 1 => q[h] = p[h]

(* C17 as stated: after an update on "opponent i played c" that keeps at    *)
(* least one particle, every particle of the result is a particle of the    *)
(* input that held c in opponent i's hand, with exactly one copy of c taken *)
(* from that hand and everything else kept.                                 *)
C17_OneCopyRemoved ==
    (Updated /\ OpponentPlayed /\ Len(Survivors) > 0) =>
        \A j \in DOMAIN bf.particles :
            \E k \in DOMAIN bf.before :
                PlayedOnce(bf.before[k], bf.particles[j],
                           bf.obs.action_player - 1, bf.obs.action_taken.card)

(* Every hand of the particle has the size given for its opponent *)
HasSizes(particle, sizes) ==
    /\ Len(particle) = Len(sizes)
    /\ \A h \in DOMAIN particle : Len(particle[h]) = sizes[h]

IsSurvivor(particle) == \E k \in DOMAIN Survivors : Survivors[k] = particle

(* C18: an update of a non-empty belief of N particles with k survivors     *)
(* returns the k survivors when 10k >= 3N; N particles that are each a      *)
(* survivor when 0 < 10k < 3N; N fresh particles with the given hand sizes  *)
(* when k = 0. The result never has fewer than 30% of N particles nor more  *)
(* than N.                                                                  *)
C18_ResampleRestoresCount ==
    Updated =>
        LET N == Len(bf.before)
            k == Len(Survivors)
        IN  /\ 10 * k >= 3 * N => bf.particles = Survivors
            /\ (0 < k /\ 10 * k < 3 * N) =>
                  /\ Len(bf.particles) = N
                  /\ \A j \in DOMAIN bf.particles : IsSurvivor(bf.particles[j])
            /\ k = 0 =>
                  /\ Len(bf.particles) = N
                  /\ \A j \in DOMAIN bf.particles : HasSizes(bf.particles[j], bf.sizes)
            /\ Len(bf.particles) <= N
            /\ 10 * Len(bf.particles) >= 3 * N

C18_Witness ==
    /\ Updated
    /\ Len(bf.before) = MaxParticles
    /\ Len(Survivors) = 1
    /\ Len(bf.particles) = MaxParticles
    /\ \A j \in DOMAIN bf.particles : bf.particles[j] = Survivors[1]

Initialized == bf.op = "initialize" /\ ~bf.hung

BfKnownCards == known_cards(bf.hand, bf.discards)

(* The pool left after removing the known cards covers the hands to deal *)
NoUnderflow ==
    Len(RemoveKnown(get_all_uno_cards, BfKnownCards)) >= Sum(bf.sizes)

(* Copies of card c across the hands of a particle *)
CopiesIn(particle, c) ==
    LET RECURSIVE S(_)
        S(h) == IF h = 0 THEN 0 ELSE Count(particle[h], c) + S(h - 1)
    IN  S(Len(particle))

Multiplicity(c) == Count(get_all_uno_cards, c)

DeckCards == {get_all_uno_cards[i] : i \in DOMAIN get_all_uno_cards}

ShapedAsAsked ==
    /\ Len(bf.particles) = bf.num
    /\ \A j \in DOMAIN bf.particles : HasSizes(bf.particles[j], bf.sizes)

(* C19 as stated: initialisation returns num_particles particles with hands *)
(* of the given sizes, and without underflow the copies of a card in a      *)
(* particle plus its copies among the known cards stay within the card's    *)
(* multiplicity in the deck.                                                *)
C19_KnownPlusDealtWithinDeck ==
    Initialized =>
        /\ ShapedAsAsked
        /\ NoUnderflow =>
              \A j \in DOMAIN bf.particles : \A c \in DeckCards :
                  CopiesIn(bf.particles[j], c) + Count(BfKnownCards, c)
                      <= Multiplicity(c)

(* C19 amended: initialisation returns num_particles particles with hands   *)
(* of the given sizes, and without underflow a particle holds at most the   *)
(* copies of a card that the deck has beyond the known ones (none when the  *)
(* known cards already hold as many copies as the deck, or more).           *)
C19_DealtWithinRemainingDeck ==
    Initialized =>
        /\ ShapedAsAsked
        /\ NoUnderflow =>
              \A j \in DOMAIN bf.particles : \A c \in DeckCards :
                  CopiesIn(bf.particles[j], c) <=
                      IF Count(BfKnownCards, c) >= Multiplicity(c) THEN 0
                      ELSE Multiplicity(c) - Count(BfKnownCards, c)

C19_Witness ==
    /\ Initialized /\ NoUnderflow
    /\ Len(bf.particles) = MaxParticles
    /\ Count(BfKnownCards, Card("Blue", "1")) = 1
    /\ CopiesIn(bf.particles[1], Card("Blue", "1")) = 1

Sampled == bf.op = "sample"

(* C20: sampling an empty belief returns the empty hand; sampling a         *)
(* non-empty belief returns, for some particle of the belief, that          *)
(* particle's hand at opponent_index, or the empty hand when the index is   *)
(* outside that particle; the belief is left as it was.                     *)
C20_SampleIsAHandOfTheBelief ==
    Sampled =>
        /\ bf.particles = bf.before
        /\ Len(bf.particles) = 0 => bf.sampled = <<>>
        /\ Len(bf.particles) > 0 =>
              \E k \in DOMAIN bf.particles :
                  IF bf.index < Len(bf.particles[k])
                  THEN bf.sampled = bf.particles[k][bf.index + 1]
                  ELSE bf.sampled = <<>>

C20_Witness ==
    /\ Sampled
    /\ Len(bf.particles) > 1
    /\ bf.index = 1
    /\ Len(bf.particles[2]) = 2
    /\ bf.sampled = bf.particles[2][2]
    /\ bf.sampled # bf.particles[1][2]

C20_WitnessEmpty == Sampled /\ Len(bf.particles) = 0 /\ bf.sampled = <<>>

----------------------------------------------------------------------------
(* MCTS.search from the state of the game, one simulation per step *)

MC_Search_Start ==
    /\ mc.phase = "idle"
    /\ \E num_simulations \in 0..MaxSims :
         mc' = [McIdle EXCEPT
                  !.phase = "running",
                  !.nodes = <<TreeNode(state, NoNode, NoAction)>>,
                  !.num_simulations = num_simulations]
    /\ UNCHANGED <<state, prev, last, raised, steps, bf, ro, tw>>

MC_Simulate ==
    /\ mc.phase = "running"
    /\ mc.i < mc.num_simulations
    /\ \E reward \in RolloutRewards :
         LET r == simulate(mc.nodes, reward)
         IN  mc' = IF r.raised
                   THEN [mc EXCEPT !.phase = "raised", !.nodes = r.nodes,
                                   !.before = mc.nodes, !.op = "simulate"]
                   ELSE [mc EXCEPT !.nodes = r.nodes,
                                   !.before = mc.nodes, !.op = "simulate",
                                   !.i = @ + 1,
                                   !.ended = Append(@, r.ended),
                                   !.rewards = Append(@, reward)]
    /\ UNCHANGED <<state, prev, last, raised, steps, bf, ro, tw>>

MC_Search_Return ==
    /\ mc.phase = "running"
    /\ mc.i = mc.num_simulations
    /\ mc' = [mc EXCEPT !.phase = "done", !.op = "return",
                       !.returned = most_visited(mc.nodes)]
    /\ UNCHANGED <<state, prev, last, raised, steps, bf, ro, tw>>

NextSearch ==
    \/ MC_Search_Start
    \/ MC_Simulate
    \/ MC_Search_Return

SpecSearch == Init /\ [][NextSearch]_vars

----------------------------------------------------------------------------
(* The operations of TreeNode and backpropagate on a tree built by hand *)

Tree_Create ==
    /\ mc.phase = "idle"
    /\ mc' = [McIdle EXCEPT
                 !.phase = "tree",
                 !.nodes = <<TreeNode(state, NoNode, NoAction)>>]
    /\ UNCHANGED <<state, prev, last, raised, steps, bf, ro, tw>>

Tree_Expand ==
    /\ mc.phase = "tree"
    /\ mc.ops < MaxTreeOps
    /\ \E id \in DOMAIN mc.nodes :
         LET e == expand(mc.nodes, id)
         IN  /\ Len(mc.nodes[id].untried_actions) > 0
             /\ mc' = [mc EXCEPT
                          !.phase = IF e.raised THEN "raised" ELSE "tree",
                          !.nodes = e.nodes,
                          !.before = mc.nodes, !.op = "expand", !.called = id,
                          !.ops = @ + 1]
    /\ UNCHANGED <<state, prev, last, raised, steps, bf, ro, tw>>

Tree_Backpropagate ==
    /\ mc.phase = "tree"
    /\ mc.ops < MaxTreeOps
    /\ \E id \in DOMAIN mc.nodes, reward \in RolloutRewards :
         mc' = [mc EXCEPT
                  !.nodes = backpropagate(mc.nodes, id, reward),
                  !.before = mc.nodes, !.op = "backpropagate", !.called = id,
                  !.ended = Append(@, id),
                  !.rewards = Append(@, reward),
                  !.ops = @ + 1]
    /\ UNCHANGED <<state, prev, last, raised, steps, bf, ro, tw>>

(* best_child leaves the tree as it is: the model ends a behaviour with it *)
Tree_BestChild ==
    /\ mc.phase = "tree"
    /\ \E id \in DOMAIN mc.nodes :
         mc' = [mc EXCEPT
                  !.phase = "asked",
                  !.before = mc.nodes, !.op = "best_child",
                  !.called = id,
                  !.returned = best_child(mc.nodes, id, c_param)]
    /\ UNCHANGED <<state, prev, last, raised, steps, bf, ro, tw>>

NextTree ==
    \/ Tree_Create
    \/ Tree_Expand
    \/ Tree_Backpropagate
    \/ Tree_BestChild

SpecTree == Init /\ [][NextTree]_vars

----------------------------------------------------------------------------
(* Vocabulary of the search properties *)

RootNode == mc.nodes[Root]

Searched == mc.phase = "done"

IsLegalAtRoot(action) ==
    \E k \in DOMAIN get_legal_actions(state) : get_legal_actions(state)[k] = action

(* C13 as stated: a search from a root on the agent's turn, whatever the    *)
(* number of simulations, never raises, and what it returns is None or a    *)
(* legal action of the root state.                                          *)
C13_SearchNeverRaises ==
    state.current_player = 0 =>
        /\ mc.phase # "raised"
        /\ (Searched /\ mc.returned # NoNode) =>
              IsLegalAtRoot(mc.nodes[mc.returned].action)

RootChildren == {RootNode.children[k] : k \in DOMAIN RootNode.children}

(* C14: the search returns the root child with the greatest visit count,    *)
(* the one created first among those that share it, whatever the average    *)
(* scores; it returns None when the root has no children.                   *)
C14_ReturnsMostVisitedFirstCreated ==
    Searched =>
        IF RootChildren = {} THEN mc.returned = NoNode
        ELSE /\ mc.returned \in RootChildren
             /\ \A c \in RootChildren :
                   /\ mc.nodes[c].visits <= mc.nodes[mc.returned].visits
                   /\ mc.nodes[c].visits = mc.nodes[mc.returned].visits =>
                         mc.returned <= c

(* A later child ties on visits with the returned one and has the better    *)
(* average score                                                            *)
C14_Witness ==
    /\ Searched
    /\ mc.returned # NoNode
    /\ \E c \in RootChildren :
          /\ c > mc.returned
          /\ mc.nodes[c].visits = mc.nodes[mc.returned].visits
          /\ mc.nodes[c].score > mc.nodes[mc.returned].score

C14_WitnessNone ==
    /\ Searched /\ mc.returned = NoNode
    /\ mc.num_simulations > 0 /\ RootNode.visits = mc.num_simulations

(* Simulations whose backpropagation started at node id *)
EndedAt(id) == Cardinality({k \in DOMAIN mc.ended : mc.ended[k] = id})

ChildrenVisits(id) ==
    LET children == mc.nodes[id].children
        RECURSIVE S(_)
        S(k) == IF k = 0 THEN 0 ELSE mc.nodes[children[k]].visits + S(k - 1)
    IN  S(Len(children))

(* C15: after every completed simulation the root's visits equal the number *)
(* of simulations done, the root children's visits sum to that number minus *)
(* the simulations that ended at the root, and every node's visits equal    *)
(* the simulations that ended at it plus its children's visits.             *)
C15_VisitConservation ==
    mc.phase \in {"running", "done"} =>
        /\ RootNode.visits = mc.i
        /\ Searched => RootNode.visits = mc.num_simulations
        /\ ChildrenVisits(Root) = mc.i - EndedAt(Root)
        /\ \A id \in DOMAIN mc.nodes :
              mc.nodes[id].visits = EndedAt(id) + ChildrenVisits(id)

C15_Witness ==
    /\ Searched
    /\ mc.num_simulations = MaxSims
    /\ Len(RootNode.children) > 1
    /\ ChildrenVisits(Root) = MaxSims
    /\ \E c \in RootChildren : mc.nodes[c].visits > 1

C15_WitnessAtRoot ==
    /\ Searched
    /\ mc.num_simulations = MaxSims
    /\ EndedAt(Root) = MaxSims
    /\ RootNode.visits = MaxSims

----------------------------------------------------------------------------
(* Vocabulary of the best_child property *)

Asked == mc.phase = "asked"

AskedChildren == mc.nodes[mc.called].children

AskedVisits(k) == mc.nodes[AskedChildren[k]].visits

(* The UCB1 value of the k-th child of the node best_child was called on *)
AskedScore(k) ==
    child_score(mc.nodes[mc.called].visits, mc.nodes[AskedChildren[k]], c_param)

(* C16: best_child returns a child without visits when there is one,        *)
(* whatever the scores of the visited children, and among the children that *)
(* share the best value (several children without visits included) the      *)
(* first in children order.                                                 *)
C16_ZeroVisitsFirst ==
    (Asked /\ Len(AskedChildren) > 0) =>
        \E k \in DOMAIN AskedChildren :
            /\ mc.returned = AskedChildren[k]
            /\ (\E j \in DOMAIN AskedChildren : AskedVisits(j) = 0) => AskedVisits(k) = 0
            /\ \A j \in DOMAIN AskedChildren :
                  /\ AskedScore(j) <= AskedScore(k)
                  /\ j < k => AskedScore(j) < AskedScore(k)

(* A visited child that won its rollout comes first, two children without   *)
(* visits follow, and the first of these is returned                        *)
C16_Witness ==
    /\ Asked
    /\ Len(AskedChildren) = 3
    /\ AskedVisits(1) = 1 /\ mc.nodes[AskedChildren[1]].score = ScoreUnit
    /\ AskedVisits(2) = 0 /\ AskedVisits(3) = 0
    /\ mc.returned = AskedChildren[2]

(* Two visited children with equal UCB1 values: the first is returned *)
C16_WitnessTie ==
    /\ Asked
    /\ Len(AskedChildren) = 2
    /\ AskedVisits(1) > 0 /\ AskedVisits(2) > 0
    /\ AskedScore(1) = AskedScore(2)
    /\ mc.returned = AskedChildren[1]

----------------------------------------------------------------------------
(* C23: an accepted colour choice changes cur_color to the chosen colour    *)
(* and nothing else, an accepted UNO declaration sets the uno flag and      *)
(* changes nothing else; neither passes the turn.                           *)
C23_ColourAndUnoChangeOneField ==
    (steps > 0 /\ ~raised) =>
        /\ last.type = "NEXT_COLOR" =>
              state = [prev EXCEPT !.cur_color = last.next_color]
        /\ last.type = "UNO" => state = [prev EXCEPT !.uno = TRUE]

C23_Witness ==
    /\ steps > 0 /\ ~raised
    /\ last.type = "NEXT_COLOR"
    /\ state.cur_color = last.next_color
    /\ prev.cur_color # state.cur_color
    /\ state.current_player = prev.current_player
    /\ Len(state.hand_cards) > 0

C23_WitnessUno ==
    /\ steps > 0 /\ ~raised
    /\ last.type = "UNO"
    /\ ~prev.uno /\ state.uno
    /\ state.current_player = prev.current_player

(* C24: an accepted draw of a concrete card appends the card at the end of  *)
(* the hand and changes nothing else; the drawing player stays the current  *)
(* player.                                                                  *)
C24_DrawAppendsOnly ==
    (steps > 0 /\ ~raised /\ last.type = "GET_NEW_CARD") =>
        /\ last.card # NoCard
        /\ state = [prev EXCEPT !.hand_cards = Append(prev.hand_cards, last.card)]
        /\ state.current_player = prev.current_player

C24_Witness ==
    /\ steps > 0 /\ ~raised
    /\ last.type = "GET_NEW_CARD"
    /\ Len(prev.hand_cards) > 0
    /\ Len(state.hand_cards) = Len(prev.hand_cards) + 1
    /\ state.hand_cards[Len(state.hand_cards)] = last.card
    /\ state.current_player = prev.current_player

----------------------------------------------------------------------------
(* Vocabulary of the properties of one simulation *)

Simulated == mc.op = "simulate" /\ mc.phase # "raised"

SimulationRaised == mc.op = "simulate" /\ mc.phase = "raised"

(* The node the last backpropagation started at *)
LastEnded == mc.ended[Len(mc.ended)]

(* The node was created by the last simulation *)
IsNew(id) == id > Len(mc.before)

(* The node the selection of the last simulation stopped at *)
StopNode == IF IsNew(LastEnded) THEN mc.nodes[LastEnded].parent ELSE LastEnded

(* The nodes above id, its parent first *)
ProperAncestors(nodes, id) ==
    LET RECURSIVE Up(_)
        Up(k) == IF nodes[k].parent = NoNode THEN {}
                 ELSE {nodes[k].parent} \cup Up(nodes[k].parent)
    IN  Up(id)

IsOpponentLeaf(node) ==
    Len(node.untried_actions) = 0 /\ Len(node.children) = 0

(* C25: the selection of a simulation passes only through nodes that are    *)
(* not terminal, have no untried action and have a child; when it stops at  *)
(* a node without untried actions and without children, no node is added    *)
(* and the backpropagation starts at that node; a simulation raises only    *)
(* while expanding.                                                         *)
C25_SelectionStopsAtOpponentLeaf ==
    /\ Simulated =>
          /\ \A a \in ProperAncestors(mc.before, StopNode) :
                /\ ~is_terminal(mc.before[a])
                /\ Len(mc.before[a].untried_actions) = 0
                /\ Len(mc.before[a].children) > 0
          /\ IsOpponentLeaf(mc.before[StopNode]) =>
                /\ Len(mc.nodes) = Len(mc.before)
                /\ LastEnded = StopNode
                /\ mc.nodes[StopNode].visits = mc.before[StopNode].visits + 1
    /\ SimulationRaised =>
          \E id \in DOMAIN mc.before :
              Len(mc.nodes[id].untried_actions) < Len(mc.before[id].untried_actions)

(* The selection went from the root into a child on an opponent's turn and  *)
(* stopped there                                                            *)
C25_Witness ==
    /\ Simulated
    /\ ~IsNew(LastEnded)
    /\ LastEnded # Root
    /\ IsOpponentLeaf(mc.before[LastEnded])
    /\ mc.nodes[LastEnded].state.current_player # 0
    /\ mc.nodes[LastEnded].visits = 2
    /\ Len(mc.nodes) = Len(mc.before)

(* The untried actions the node was created with *)
InitialUntried(node) == TreeNode(node.state, node.parent, node.action).untried_actions

(* The children of the node are its last initial untried actions, taken     *)
(* from the end, each applied to the node's state; the rest is still untried *)
ExpandedFromTheEnd(id) ==
    LET node == mc.nodes[id]
        initial == InitialUntried(node)
        n == Len(initial)
    IN  /\ Len(node.children) + Len(node.untried_actions) = n
        /\ node.untried_actions = SubSeq(initial, 1, n - Len(node.children))
        /\ \A k \in DOMAIN node.children :
              LET child == mc.nodes[node.children[k]]
              IN  /\ child.parent = id
                  /\ child.action = initial[n + 1 - k]
                  /\ ~transition(node.state, child.action).raised
                  /\ child.state = transition(node.state, child.action).state

(* C26 as stated: a simulation adds at most one node, and at every node the *)
(* children are the initial untried actions popped from the end (the plays  *)
(* in hand order), one child per action, holding transition(state, action); *)
(* children plus untried actions stay as many as the node started with.     *)
C26_UntriedBecomeChildren ==
    mc.op = "simulate" =>
        /\ Len(mc.nodes) <= Len(mc.before) + 1
        /\ \A id \in DOMAIN mc.nodes : ExpandedFromTheEnd(id)
        /\ Len(playable_cards(state)) > 0 /\ state.current_player = 0 =>
              InitialUntried(RootNode) = PlayActions(playable_cards(state))

(* The same, for the simulations that complete *)
C26_UntriedBecomeChildrenUnlessRaised ==
    Simulated => C26_UntriedBecomeChildren

(* The nodes best_child was invoked on in the last simulation: those the    *)
(* selection passed through                                                 *)
BestChildCalls == ProperAncestors(mc.before, StopNode)

(* C27: whenever a simulation invokes best_child, the node it is invoked on *)
(* has at least one visit and each of its children has at least one visit.  *)
C27_BestChildSeesVisitedNodes ==
    Simulated =>
        \A a \in BestChildCalls :
            /\ mc.before[a].visits >= 1
            /\ \A k \in DOMAIN mc.before[a].children :
                  mc.before[mc.before[a].children[k]].visits >= 1

C27_Witness ==
    /\ Simulated
    /\ Root \in BestChildCalls
    /\ Len(mc.before[Root].children) > 1
    /\ mc.before[Root].visits = Len(mc.before[Root].children)
    /\ \A k \in DOMAIN mc.before[Root].children :
          mc.before[mc.before[Root].children[k]].visits = 1

----------------------------------------------------------------------------
(* Vocabulary of the backpropagation property *)

Backpropagated == mc.op = "backpropagate"

LastReward == mc.rewards[Len(mc.rewards)]

(* Parent steps from node id up to node k, which is id or above it *)
StepsUp(nodes, id, k) ==
    LET RECURSIVE D(_)
        D(j) == IF j = k THEN 0 ELSE 1 + D(nodes[j].parent)
    IN  D(id)

(* gamma^d, in units of 1 / ScoreUnit *)
GammaPower(d) ==
    LET RECURSIVE P(_)
        P(j) == IF j = 0 THEN ScoreUnit ELSE (P(j - 1) * gamma.num) \div gamma.den
    IN  P(d)

(* C28: backpropagate(node, reward) adds one visit to the node and to each  *)
(* of its ancestors and to no other node, adds reward * gamma^k to the      *)
(* score of the node k parent steps above, and changes nothing else; every  *)
(* node keeps 0 <= score <= visits.                                         *)
C28_BackpropagateCreditsThePath ==
    /\ Backpropagated =>
          /\ Len(mc.nodes) = Len(mc.before)
          /\ \A k \in DOMAIN mc.nodes :
                IF k = mc.called \/ k \in ProperAncestors(mc.before, mc.called)
                THEN mc.nodes[k] =
                        [mc.before[k] EXCEPT
                           !.visits = @ + 1,
                           !.score = @ + LastReward *
                                GammaPower(StepsUp(mc.before, mc.called, k))]
                ELSE mc.nodes[k] = mc.before[k]
    /\ \A k \in DOMAIN mc.nodes :
          /\ 0 <= mc.nodes[k].score
          /\ mc.nodes[k].score <= mc.nodes[k].visits * ScoreUnit

(* A won rollout is credited to a child in full and to the root discounted, *)
(* and a sibling is left alone                                              *)
C28_Witness ==
    /\ Backpropagated
    /\ mc.called # Root
    /\ LastReward = 1
    /\ Len(mc.nodes) > 2
    /\ mc.nodes[mc.called].score = mc.before[mc.called].score + ScoreUnit
    /\ mc.nodes[Root].score = mc.before[Root].score + GammaPower(1)
    /\ mc.nodes[Root].score < mc.nodes[Root].visits * ScoreUnit

----------------------------------------------------------------------------
(* MCTS.rollout from a state and a belief, one step of its loop per step *)

RolloutDeals ==
    { ExampleDeal,
      Deal(<<Card("Red", "5")>>, Card("Blue", "5"), "Blue") }

RolloutPlayers == 2..3

RolloutSizes == 1..2

(* The states a rollout starts from: a root or a child of the search tree *)
RolloutRoots ==
    { [UNOState(deal, n, cur, 1) EXCEPT
          !.opponents_cards_num = [i \in 1..(n - 1) |-> size]] :
        deal \in RolloutDeals, n \in RolloutPlayers, cur \in 0..1,
        size \in RolloutSizes }

OpponentHands ==
    << <<Card("Wild", "Draw Four"), Card("Blue", "7")>>,
       <<Card("Wild", "Draw Four"), Card("Red", "9")>>,
       <<Card("Blue", "7")>> >>

(* Particle j of a hand-made belief: the opponents hold OpponentHands in turn *)
RolloutParticle(n, j) ==
    [i \in 1..(n - 1) |-> OpponentHands[((i + j) % Len(OpponentHands)) + 1]]

RolloutBeliefs(n) ==
    { <<>>,
      <<RolloutParticle(n, 0), RolloutParticle(n, 1)>>,
      <<RolloutParticle(n, 2)>> }

RolloutDraws == {Card("Blue", "7"), Card("Wild", "5")}

RolloutChoices ==
    [pick : 0..1, plays : BOOLEAN, color : {"Red"}, drawn : RolloutDraws,
     src : {[base |-> 0, stride |-> 1, rev |-> FALSE]}]

InitRollout ==
    /\ state \in RolloutRoots
    /\ prev = state
    /\ last = NoAction
    /\ raised = FALSE
    /\ steps = 0
    /\ bf = BfIdle
    /\ mc = McIdle
    /\ ro = RoIdle
    /\ tw = McIdle

RO_Start ==
    /\ ro.phase = "idle"
    /\ \E belief \in RolloutBeliefs(state.num_players), max_depth \in 0..MaxDepth :
         ro' = [RoIdle EXCEPT !.phase = "running",
                              !.belief = belief,
                              !.max_depth = max_depth]
    /\ UNCHANGED <<state, prev, last, raised, steps, bf, mc, tw>>

RO_Step ==
    /\ ro.phase = "running"
    /\ ro.depth < ro.max_depth
    /\ \E ch \in RolloutChoices :
         \E r \in {rollout_step(state, ro.belief, ch)} :
             /\ state' = r.state
             /\ prev' = state
             /\ last' = r.action
             /\ raised' = r.raised
             /\ ro' = [ro EXCEPT
                          !.phase = IF r.raised THEN "raised"
                                    ELSE IF r.hung THEN "hung"
                                    ELSE IF r.returns THEN "returned"
                                    ELSE "running",
                          !.belief = r.belief,
                          !.depth = @ + 1,
                          !.reward = IF r.returns THEN r.reward ELSE 0,
                          !.actor = IF state.current_player = 0
                                    THEN "agent" ELSE "opponent",
                          !.opponent_hand = r.opponent_hand,
                          !.playable = r.playable]
    /\ UNCHANGED <<steps, bf, mc, tw>>

(* The loop ends after max_depth steps: "Did not reach win within depth" *)
RO_Exhausted ==
    /\ ro.phase = "running"
    /\ ro.depth = ro.max_depth
    /\ ro' = [ro EXCEPT !.phase = "returned", !.reward = 0, !.actor = "none"]
    /\ UNCHANGED <<state, prev, last, raised, steps, bf, mc, tw>>

NextRollout ==
    \/ RO_Start
    \/ RO_Step
    \/ RO_Exhausted

SpecRollout == InitRollout /\ [][NextRollout]_vars

----------------------------------------------------------------------------
(* Vocabulary of the rollout properties *)

RolloutReturned == ro.phase = "returned"

AgentStepped == ro.actor = "agent" /\ ro.phase \in {"running", "returned"}

OpponentStepped == ro.actor = "opponent" /\ ro.phase \in {"running", "returned"}

(* The opponent that acted in the last step, as an index of the sizes *)
ActingOpponent == prev.current_player

ActingOpponentOut ==
    /\ ActingOpponent \in DOMAIN state.opponents_cards_num
    /\ state.opponents_cards_num[ActingOpponent] = 0

(* C21: a rollout makes at most max_depth steps and ends, without raising,  *)
(* with reward 0.0 or 1.0: 1.0 as soon as an agent step leaves the agent's  *)
(* hand empty, 0.0 as soon as the acting opponent's hand size is 0 after    *)
(* its step, 0.0 when max_depth steps have passed with neither.             *)
C21_RolloutEndsWithReward ==
    /\ ro.phase \in {"idle", "running", "returned"}
    /\ ro.depth <= ro.max_depth
    /\ ro.reward \in {0, 1}
    /\ AgentStepped =>
          IF Len(state.hand_cards) = 0
          THEN RolloutReturned /\ ro.reward = 1
          ELSE ro.phase = "running"
    /\ OpponentStepped =>
          IF ActingOpponentOut
          THEN RolloutReturned /\ ro.reward = 0
          ELSE ro.phase = "running"
    /\ (RolloutReturned /\ ro.actor = "none") =>
          ro.depth = ro.max_depth /\ ro.reward = 0

(* The agent declares UNO, then plays its last card *)
C21_Witness ==
    /\ RolloutReturned /\ ro.reward = 1
    /\ ro.actor = "agent"
    /\ ro.depth > 1
    /\ Len(prev.hand_cards) = 1 /\ Len(state.hand_cards) = 0

C21_WitnessOpponentWins ==
    /\ RolloutReturned /\ ro.reward = 0
    /\ ro.actor = "opponent"
    /\ last.type = "V_CARD"
    /\ prev.opponents_cards_num[ActingOpponent] = 1
    /\ ActingOpponentOut

C21_WitnessExhausted ==
    /\ RolloutReturned /\ ro.actor = "none"
    /\ ro.depth = MaxDepth

(* The size the acting opponent's hand has after playing or drawing *)
SizeAfter(size) ==
    IF last.type = "V_CARD" THEN (IF size > 0 THEN size - 1 ELSE 0) ELSE size + 1

(* C29: a simulated opponent turn, play (with the colour choice after a     *)
(* wild card) or draw, returns the agent's hand as it was passed in and     *)
(* changes the hand size of the acting opponent only: by -1 on a play,      *)
(* never below 0, and by +1 on a draw.                                      *)
C29_OpponentTurnKeepsAgentHand ==
    OpponentStepped =>
        /\ last.type \in {"V_CARD", "GET_NEW_CARD"}
        /\ state.hand_cards = prev.hand_cards
        /\ DOMAIN state.opponents_cards_num = DOMAIN prev.opponents_cards_num
        /\ \A i \in DOMAIN prev.opponents_cards_num :
              state.opponents_cards_num[i] =
                  IF i = ActingOpponent
                  THEN SizeAfter(prev.opponents_cards_num[i])
                  ELSE prev.opponents_cards_num[i]

(* An opponent of two plays a wild card and Red is chosen *)
C29_Witness ==
    /\ OpponentStepped
    /\ last.type = "V_CARD" /\ last.card.color = "Wild"
    /\ state.cur_color = "Red" /\ prev.cur_color # "Red"
    /\ Len(state.hand_cards) > 0
    /\ state.hand_cards = prev.hand_cards
    /\ Len(state.opponents_cards_num) = 2
    /\ state.opponents_cards_num[ActingOpponent] =
          prev.opponents_cards_num[ActingOpponent] - 1

C29_WitnessDraw ==
    /\ OpponentStepped
    /\ last.type = "GET_NEW_CARD"
    /\ Len(ro.opponent_hand) > 0
    /\ state.hand_cards = prev.hand_cards
    /\ state.opponents_cards_num[ActingOpponent] =
          prev.opponents_cards_num[ActingOpponent] + 1

(* The restriction on Wild-Draw Four as the rules state it for a hand: the  *)
(* card may be played only when the hand holds no card of the current colour *)
DrawFourAllowedFor(hand, s) == ~_has_color_match(hand, s.cur_color)

HoldsDrawFour(hand) ==
    \E k \in 1..Len(hand) : hand[k] = Card("Wild", "Draw Four")

OffersDrawFour(playable) ==
    \E k \in 1..Len(playable) : playable[k] = Card("Wild", "Draw Four")

(* C30: in a simulated opponent turn a Wild-Draw Four of the sampled        *)
(* opponent hand is treated as playable exactly when that sampled hand has  *)
(* no card of the current colour, whatever the agent's hand holds.          *)
C30_DrawFourJudgedOnOpponentHand ==
    (/\ OpponentStepped
     /\ prev.cur_top # NoCard
     /\ HoldsDrawFour(ro.opponent_hand)) =>
        (OffersDrawFour(ro.playable) <=>
            DrawFourAllowedFor(ro.opponent_hand, prev))

----------------------------------------------------------------------------
(* Two runs of MCTS.search on the same inputs, reading the same random      *)
(* choices: a tape holds the choices of one rollout, one record per step.   *)

(* MCTS.rollout for the random choices of a tape; "belief" is the value of  *)
(* the local current_belief when the rollout returns                        *)
rollout(s, belief_particles, max_depth, tape) ==
    LET RECURSIVE Loop(_, _, _)
        Loop(cur, current_belief, depth) ==
            IF depth >= max_depth
            THEN [raised |-> FALSE, hung |-> FALSE, reward |-> 0,
                  belief |-> current_belief]
            ELSE Only({ IF r.raised
                        THEN [raised |-> TRUE, hung |-> FALSE, reward |-> 0,
                              belief |-> current_belief]
                        ELSE IF r.hung
                        THEN [raised |-> FALSE, hung |-> TRUE, reward |-> 0,
                              belief |-> current_belief]
                        ELSE IF r.returns
                        THEN [raised |-> FALSE, hung |-> FALSE,
                              reward |-> r.reward, belief |-> r.belief]
                        ELSE Loop(r.state, r.belief, depth + 1) :
                        r \in {rollout_step(cur, current_belief, tape[depth + 1])} })
    IN  Loop(s, belief_particles, 0)

(* Mutant: the rollout updates the list it is given, the list of the root. *)
search_iteration_shared(nodes, belief_particles, max_depth, tape) ==
    LET selected == select(nodes)
        expands == /\ ~is_terminal(nodes[selected])
                   /\ ~is_fully_expanded(nodes[selected])
        e == expand(nodes, selected)
        grown == IF expands THEN e.nodes ELSE nodes
        node == IF expands THEN e.child ELSE selected
        current_belief == IF selected = Root THEN belief_particles
                          ELSE nodes[selected].belief_particles
    IN  IF expands /\ e.raised
        THEN [outcome |-> "raised", nodes |-> e.nodes, ended |-> NoNode,
              reward |-> 0, started |-> <<>>]
        ELSE Only({ IF r.raised
                    THEN [outcome |-> "raised", nodes |-> grown,
                          ended |-> node, reward |-> 0,
                          started |-> current_belief]
                    ELSE IF r.hung
                    THEN [outcome |-> "hung", nodes |-> grown,
                          ended |-> node, reward |-> 0,
                          started |-> current_belief]
                    ELSE [outcome |-> "running",
                          nodes |-> [simulate(nodes, r.reward).nodes EXCEPT
                                       ![Root].belief_particles = r.belief],
                          ended |-> node, reward |-> r.reward,
                          started |-> current_belief] :
                    r \in {rollout(grown[node].state, current_belief,
                                   max_depth, tape)} })

(* One iteration of the simulation loop with its rollout. The rollout       *)
(* starts from the belief of the search when selection stayed at the root,  *)
(* and from the belief_particles of the node selection went down to. Every  *)
(* node has the attribute from TreeNode.__init__, so the expansion step,    *)
(* which sets it only on a node without it, leaves the new child's empty.   *)
(* "started" is the belief the rollout starts from.                         *)
search_iteration(nodes, belief_particles, max_depth, tape) ==
    LET selected == select(nodes)
        expands == /\ ~is_terminal(nodes[selected])
                   /\ ~is_fully_expanded(nodes[selected])
        e == expand(nodes, selected)
        grown == IF expands THEN e.nodes ELSE nodes
        node == IF expands THEN e.child ELSE selected
        current_belief == IF selected = Root THEN belief_particles
                          ELSE nodes[selected].belief_particles
    IN  IF expands /\ e.raised
        THEN [outcome |-> "raised", nodes |-> e.nodes, ended |-> NoNode,
              reward |-> 0, started |-> <<>>]
        ELSE Only({ IF r.raised
                    THEN [outcome |-> "raised", nodes |-> grown,
                          ended |-> node, reward |-> 0,
                          started |-> current_belief]
                    ELSE IF r.hung
                    THEN [outcome |-> "hung", nodes |-> grown,
                          ended |-> node, reward |-> 0,
                          started |-> current_belief]
                    ELSE [outcome |-> "running",
                          nodes |-> simulate(nodes, r.reward).nodes,
                          ended |-> node, reward |-> r.reward,
                          started |-> current_belief] :
                    r \in {rollout(grown[node].state, current_belief,
                                   max_depth, tape)} })

(* A run of search after one more iteration of its loop *)
search_loop(run, belief_particles, max_depth, tape) ==
    Only({ IF r.outcome = "running"
           THEN [run EXCEPT !.nodes = r.nodes,
                            !.before = run.nodes, !.op = "simulate",
                            !.i = @ + 1,
                            !.ended = Append(@, r.ended),
                            !.rewards = Append(@, r.reward),
                            !.started = Append(@, r.started)]
           ELSE [run EXCEPT !.phase = r.outcome, !.nodes = r.nodes,
                            !.before = run.nodes, !.op = "simulate"] :
           r \in {search_iteration(run.nodes, belief_particles, max_depth, tape)} })

TwinDeals ==
    { ExampleDeal,
      Deal(<<Card("Blue", "3"), Card("Blue", "4")>>, Card("Blue", "5"), "Blue"),
      Deal(<<Card("Red", "5")>>, Card("Blue", "5"), "Blue"),
      Deal(<<Card("Blue", "7")>>, NoCard, None) }

TwinRoots ==
    { UNOState(deal, n, cur, 1) :
        deal \in TwinDeals, n \in RolloutPlayers, cur \in 0..1 }

TapeChoices == {ch \in RolloutChoices : ch.drawn = Card("Blue", "7")}

(* The tapes of random choices: one choice at every step, or two choices    *)
(* in turn that differ in whether the opponent plays                        *)
Tapes ==
    UNION { { [d \in 1..MaxDepth |-> odd],
              [d \in 1..MaxDepth |->
                  IF d % 2 = 1 THEN odd ELSE [odd EXCEPT !.plays = ~@]] } :
            odd \in TapeChoices }

InitTwin ==
    /\ state \in TwinRoots
    /\ prev = state
    /\ last = NoAction
    /\ raised = FALSE
    /\ steps = 0
    /\ bf = BfIdle
    /\ mc = McIdle
    /\ ro = RoIdle
    /\ tw = McIdle

TW_Search_Start ==
    /\ mc.phase = "idle"
    /\ \E num_simulations \in 0..MaxSims,
          belief \in RolloutBeliefs(state.num_players),
          max_depth \in 0..MaxDepth :
         /\ mc' = [McIdle EXCEPT
                     !.phase = "running",
                     !.nodes = <<[TreeNode(state, NoNode, NoAction) EXCEPT
                                    !.belief_particles = belief]>>,
                     !.num_simulations = num_simulations]
         /\ tw' = mc'
         /\ ro' = [RoIdle EXCEPT !.belief = belief, !.max_depth = max_depth]
    /\ UNCHANGED <<state, prev, last, raised, steps, bf>>

(* Mutant: the second run reads random choices of its own. *)
TW_Simulate_unseeded ==
    /\ mc.phase = "running" /\ tw.phase = "running"
    /\ mc.i < mc.num_simulations
    /\ \E tape \in Tapes, other \in Tapes :
         /\ mc' = search_loop(mc, ro.belief, ro.max_depth, tape)
         /\ tw' = search_loop(tw, ro.belief, ro.max_depth, other)
    /\ UNCHANGED <<state, prev, last, raised, steps, bf, ro>>

(* Both runs make their next iteration on the same random choices *)
TW_Simulate ==
    /\ mc.phase = "running" /\ tw.phase = "running"
    /\ mc.i < mc.num_simulations
    /\ \E tape \in Tapes :
         /\ mc' = search_loop(mc, ro.belief, ro.max_depth, tape)
         /\ tw' = search_loop(tw, ro.belief, ro.max_depth, tape)
    /\ UNCHANGED <<state, prev, last, raised, steps, bf, ro>>

TW_Search_Return ==
    /\ mc.phase = "running" /\ tw.phase = "running"
    /\ mc.i = mc.num_simulations
    /\ mc' = [mc EXCEPT !.phase = "done", !.op = "return",
                        !.returned = most_visited(mc.nodes)]
    /\ tw' = [tw EXCEPT !.phase = "done", !.op = "return",
                        !.returned = most_visited(tw.nodes)]
    /\ UNCHANGED <<state, prev, last, raised, steps, bf, ro>>

NextTwin ==
    \/ TW_Search_Start
    \/ TW_Simulate
    \/ TW_Search_Return

SpecTwin == InitTwin /\ [][NextTwin]_vars

(* The action a run returns: the action of the child it picked, or None *)
ReturnedAction(run) ==
    IF run.returned = NoNode THEN NoAction ELSE run.nodes[run.returned].action

----------------------------------------------------------------------------
(* C37: over any sequence of transitions sum_plus never decreases, and the  *)
(* skip and uno flags, once true, stay true: no action resolves the         *)
(* forced-draw counter or clears the pending skip or the UNO declaration.   *)
C37_PenaltyAndFlagsOnlyGrow ==
    /\ state.sum_plus >= prev.sum_plus
    /\ prev.skip => state.skip
    /\ prev.uno => state.uno

(* A pending skip and a pending penalty survive the play of a number card *)
C37_Witness ==
    /\ steps = 2 /\ ~raised
    /\ prev.skip /\ state.skip
    /\ last.type = "V_CARD"
    /\ last.card.type \notin {"Skip", "Reverse", "Draw Two", "Draw Four"}
    /\ state.current_player # prev.current_player

C37_WitnessPenalty ==
    /\ steps = 2 /\ ~raised
    /\ prev.sum_plus > 0 /\ ~prev.uno
    /\ last.type = "UNO"
    /\ state.sum_plus = prev.sum_plus /\ state.uno

(* C35: get_legal_actions without available_draw_cards is never empty (the *)
(* draw action is returned when no card is playable, an empty hand         *)
(* included), so a tree node holding the state is never terminal.          *)
C35_LegalActionsNeverEmpty ==
    /\ Len(get_legal_actions(state)) > 0
    /\ ~is_terminal(TreeNode(state, NoNode, NoAction))
    /\ NoHandCardPlayable =>
          \E i \in DOMAIN get_legal_actions(state) :
              get_legal_actions(state)[i] = DrawUnknown

(* The agent played its last card: the empty hand still gets the draw *)
C35_Witness ==
    /\ Played
    /\ Len(state.hand_cards) = 0
    /\ get_legal_actions(state) = <<DrawUnknown>>

(* C36: for a root on the agent's turn the tree is at most one level deep:  *)
(* every other node is a child of the root, holds a state with              *)
(* current_player # 0, has no untried actions and no children; the tree has *)
(* at most 1 + (root legal actions other than UNO) nodes, and the returned  *)
(* action is never a UNO declaration.                                       *)
C36_TreeIsOneLevelDeep ==
    (mc.phase # "idle" /\ state.current_player = 0) =>
        /\ \A k \in DOMAIN mc.nodes :
              k # Root =>
                 /\ mc.nodes[k].parent = Root
                 /\ mc.nodes[k].state.current_player # 0
                 /\ mc.nodes[k].untried_actions = <<>>
                 /\ mc.nodes[k].children = <<>>
                 /\ mc.nodes[k].action.type # "UNO"
        /\ Len(mc.nodes) <= 1 + Len(WithoutUno(get_legal_actions(state)))
        /\ ReturnedAction(mc).type # "UNO"

(* All plays of a one-level tree were expanded and visited again *)
C36_Witness ==
    /\ mc.phase = "done" /\ state.current_player = 0
    /\ mc.num_simulations = MaxSims
    /\ Len(mc.nodes) = 1 + Len(WithoutUno(get_legal_actions(state)))
    /\ Len(mc.nodes) > 2
    /\ mc.nodes[Root].untried_actions = <<>>
    /\ ReturnedAction(mc).type = "V_CARD"

(* A one-card hand: the UNO declaration is legal but never expanded *)
C36_WitnessUno ==
    /\ mc.phase = "done" /\ state.current_player = 0
    /\ Len(get_legal_actions(state)) = 2
    /\ get_legal_actions(state)[2] = DeclareUno
    /\ Len(mc.nodes) = 2 /\ mc.num_simulations > 1

(* C38: when the belief handed to search is not empty, the rollout of every *)
(* simulation starts from that belief, also when the simulation went down   *)
(* from the root into a child expanded earlier.                             *)
C38_RolloutsStartFromCallerBelief ==
    Len(ro.belief) > 0 =>
        \A k \in DOMAIN mc.started :
            /\ Len(mc.started[k]) > 0
            /\ mc.started[k] = ro.belief

(* The simulations that ended at a child whose state has an empty agent     *)
(* hand: the action applied at its expansion was the play of the last card  *)
WinningSimulations ==
    {k \in DOMAIN mc.ended :
        /\ mc.ended[k] # Root
        /\ Len(mc.nodes[mc.ended[k]].state.hand_cards) = 0}

(* C31: a simulation for a child reached by the play of the agent's last    *)
(* card has reward 1.0: the rollout takes the empty hand for a win.         *)
C31_LastCardChildIsAWin ==
    \A k \in WinningSimulations : mc.rewards[k] = 1

(* The cards of the 108-card deck *)
InVocabulary(card) ==
    \E k \in DOMAIN get_all_uno_cards : get_all_uno_cards[k] = card

(* C33: in every state of a rollout from a root whose hand holds deck cards *)
(* only, every hand card and the top card are deck cards; in particular the *)
(* card bound to an unknown draw is a deck card.                            *)
C33_CardsStayInVocabulary ==
    /\ \A k \in DOMAIN state.hand_cards : InVocabulary(state.hand_cards[k])
    /\ state.cur_top # NoCard => InVocabulary(state.cur_top)
    /\ (AgentStepped /\ last.type = "GET_NEW_CARD") => InVocabulary(last.card)

(* The hand sizes before the observed play: the player's size one more *)
SizesBeforePlay == [bf.sizes EXCEPT ![bf.obs.action_player] = @ + 1]

(* q is p with the copies of c taken out of opponent i's hand, one or all *)
PlayedOut(p, q, i, c) ==
    /\ Len(q) = Len(p)
    /\ Others(q[i + 1], c) = Others(p[i + 1], c)
    /\ Count(q[i + 1], c) < Count(p[i + 1], c)
    /\ \A h \in DOMAIN p : h # i + 1 => q[h] = p[h]

(* C32: when the belief agrees with the hand sizes before an opponent's     *)
(* play of c and the update gets the sizes after the play, every prior      *)
(* particle that held c in that opponent's hand survives with c removed.    *)
C32_HoldersSurviveThePlay ==
    (/\ Updated /\ OpponentPlayed
     /\ \A k \in DOMAIN bf.before : HasSizes(bf.before[k], SizesBeforePlay)) =>
        \A k \in DOMAIN bf.before :
            InHand(bf.before[k][bf.obs.action_player], bf.obs.action_taken.card) =>
                \E j \in DOMAIN bf.particles :
                    PlayedOut(bf.before[k], bf.particles[j],
                              bf.obs.action_player - 1, bf.obs.action_taken.card)

(* The list search is called with is the list kept at the root            *)
(* (root.belief_particles = belief_particles): what the root holds when the *)
(* call is over is what the caller's list holds.                            *)
CallersBelief == mc.nodes[Root].belief_particles

(* C34: search leaves its inputs as they were at call entry: the root state *)
(* and the list of belief particles, length and particles.                  *)
C34_SearchKeepsItsInputs ==
    mc.phase # "idle" =>
        /\ mc.nodes[Root].state = state
        /\ Len(CallersBelief) = Len(ro.belief)
        /\ CallersBelief = ro.belief

(* A search with a belief returned after rollouts that updated their belief *)
C34_Witness ==
    /\ mc.phase = "done"
    /\ mc.num_simulations = MaxSims
    /\ Len(ro.belief) > 1 /\ ro.max_depth = MaxDepth
    /\ Len(mc.nodes) > 2
    /\ \E k \in DOMAIN mc.started : mc.started[k] = ro.belief
    /\ CallersBelief = ro.belief

(* C39: initialize_belief_particles ends for every input, pool underflow   *)
(* included: the padding loop ends and every particle gets hands of the     *)
(* given sizes, also when every distinct deck card is among the known cards.*)
C39_InitializeTerminates ==
    bf.op = "initialize" =>
        /\ ~bf.hung
        /\ Len(bf.particles) = bf.num
        /\ \A k \in DOMAIN bf.particles : HasSizes(bf.particles[k], bf.sizes)

----------------------------------------------------------------------------
(* MCTSPlayer: the planner keeps its belief and its history of seen         *)
(* discards between calls. bf.num is num_particles of the constructor,      *)
(* bf.particles the belief, bf.discards observed_discard_history.           *)

PlannerParticles == {1, MaxParticles}

(* The hands of the agent the game shows to the planner *)
PlannerHands == {known.hand : known \in BeliefKnown}

InitPlanner ==
    /\ state = UNOState(ExampleDeal, 4, 0, 1)
    /\ prev = state
    /\ last = NoAction
    /\ raised = FALSE
    /\ steps = 0
    /\ \E num_particles \in PlannerParticles :
         bf = [BfIdle EXCEPT !.num = num_particles]
    /\ mc = McIdle
    /\ ro = RoIdle
    /\ tw = McIdle

(* get_action: an empty belief is initialised with num_particles; the       *)
(* search that follows works on copies                                      *)
PL_GetAction ==
    /\ bf.ops < MaxBeliefOps /\ ~bf.hung
    /\ \E hand \in PlannerHands, sizes \in BeliefSizes, src \in FirstSources :
         LET first == Len(bf.particles) = 0
             hangs == first /\ initialize_diverges(hand, sizes, bf.discards, bf.num)
         IN  bf' = [bf EXCEPT
                      !.before = bf.particles,
                      !.op = "get_action",
                      !.hand = hand,
                      !.sizes = IF first THEN sizes ELSE @,
                      !.hung = hangs,
                      !.particles =
                          IF first /\ ~hangs
                          THEN initialize_belief_particles(hand, sizes,
                                   bf.discards, bf.num, src)
                          ELSE bf.particles,
                      !.ops = bf.ops + 1]
    /\ UNCHANGED <<state, prev, last, raised, steps, mc, ro, tw>>

(* update_belief: the observation carries the history with the played card, *)
(* and the history is extended by it                                        *)
PL_UpdateBelief ==
    /\ bf.ops < MaxBeliefOps /\ ~bf.hung
    /\ \E action \in ObservedActions, player \in Observers,
          hand \in PlannerHands,
          sizes \in (IF Len(bf.particles) = 0 THEN BeliefSizes
                     ELSE {z \in BeliefSizes : Len(z) = Len(bf.sizes)}) :
         LET obs == observation(action, player, bf.discards)
             hangs == update_diverges(bf.particles, obs, hand, sizes)
         IN  \E src \in (IF Len(bf.particles) = 0 THEN FirstSources
                         ELSE IF UpdateDraws(bf.particles, obs, sizes)
                         THEN RandomSources ELSE {NoRandom}) :
               bf' = [bf EXCEPT
                        !.before = bf.particles,
                        !.op = "update",
                        !.obs = obs, !.sizes = sizes, !.hand = hand,
                        !.discards = obs.observed_discard_cards,
                        !.hung = hangs,
                        !.particles =
                            IF hangs THEN bf.particles
                            ELSE update_belief_state(bf.particles, obs,
                                      hand, sizes, src),
                        !.ops = bf.ops + 1]
    /\ UNCHANGED <<state, prev, last, raised, steps, mc, ro, tw>>

PL_Reset ==
    /\ ~bf.hung
    /\ bf.op \in {"get_action", "update"}
    /\ bf' = [BfIdle EXCEPT !.before = bf.particles, !.op = "reset",
                            !.num = bf.num, !.ops = bf.ops]
    /\ UNCHANGED <<state, prev, last, raised, steps, mc, ro, tw>>

NextPlanner ==
    \/ PL_GetAction
    \/ PL_UpdateBelief
    \/ PL_Reset

SpecPlanner == InitPlanner /\ [][NextPlanner]_vars

(* C40: after any sequence of get_action, update_belief and reset the       *)
(* planner holds no particle after construction or reset, and otherwise at  *)
(* least 30% of num_particles and never more than num_particles.            *)
C40_ParticlesWithinConfiguredNumber ==
    ~bf.hung =>
        /\ bf.op \in {"none", "reset"} => Len(bf.particles) = 0
        /\ Len(bf.particles) <= bf.num
        /\ bf.op \in {"get_action", "update"} =>
              10 * Len(bf.particles) >= 3 * bf.num

====
